---------------------------- MODULE Spec2Model ----------------------------
(***************************************************************************)
(* Model of the response interpretation layer of the ESB OMS client:      *)
(* HTTPClient.request and HTTPClient._handle_response (esb_oms/_http.py), *)
(* and of its session manager: BaseClient (esb_oms/_base.py) with the     *)
(* login and refresh calls of AuthAPI (esb_oms/api/auth.py).  Spec is one *)
(* call of HTTPClient.request; SessionSpec is the session of one client   *)
(* over every answer of the authentication endpoint; ClientSpec is the    *)
(* life of one client from construction to close(), with requests through *)
(* each of its four HTTP clients.                                         *)
(*                                                                         *)
(* Text is a sequence of one-character strings, so that lower-casing,     *)
(* substring search, int() and json.loads are computed character by       *)
(* character.  A JSON value is a pair <<kind, payload>>:                   *)
(*    <<"null", 0>>  <<"bool", b>>  <<"int", n>>  <<"float", lexeme>>      *)
(*    <<"str", text>>  <<"list", sequence of values>>                      *)
(*    <<"obj", function from key text to value>>                           *)
(* Python's None is the JSON null.                                         *)
(***************************************************************************)
EXTENDS Integers, Sequences, FiniteSets, TLC

----------------------------------------------------------------------------
(* Python text primitives *)

UpperCase == <<"A","B","C","D","E","F","G","H","I","J","K","L","M",
               "N","O","P","Q","R","S","T","U","V","W","X","Y","Z">>
LowerCase == <<"a","b","c","d","e","f","g","h","i","j","k","l","m",
               "n","o","p","q","r","s","t","u","v","w","x","y","z">>
Digits == <<"0","1","2","3","4","5","6","7","8","9">>
Whitespace == {" ", "\t", "\n", "\r"}

IsDigit(c) == \E i \in DOMAIN Digits : Digits[i] = c
DigitVal(c) == (CHOOSE i \in DOMAIN Digits : Digits[i] = c) - 1

LowerChar(c) ==
    IF \E i \in DOMAIN UpperCase : UpperCase[i] = c
    THEN LowerCase[CHOOSE i \in DOMAIN UpperCase : UpperCase[i] = c]
    ELSE c

\* str.lower()
Lower(s) == [i \in 1..Len(s) |-> LowerChar(s[i])]

\* sub in s
Contains(sub, s) ==
    \E i \in 1..(Len(s) - Len(sub) + 1) : SubSeq(s, i, i + Len(sub) - 1) = sub

\* str.strip()
Strip(s) ==
    LET keep == {i \in 1..Len(s) : s[i] \notin Whitespace}
    IN  IF keep = {} THEN <<>>
        ELSE SubSeq(s, CHOOSE i \in keep : \A j \in keep : i <= j,
                       CHOOSE i \in keep : \A j \in keep : j <= i)

\* the decimal digits of a non-negative integer
RECURSIVE NatText(_)
NatText(n) == IF n < 10 THEN <<Digits[n + 1]>>
              ELSE NatText(n \div 10) \o <<Digits[(n % 10) + 1]>>

\* str(n) for an integer
IntText(n) == IF n < 0 THEN <<"-">> \o NatText(0 - n) ELSE NatText(n)

\* the value of a run of digits and underscores, most significant first
RECURSIVE DigitsValue(_, _)
DigitsValue(s, acc) ==
    IF s = <<>> THEN acc
    ELSE IF Head(s) = "_" THEN DigitsValue(Tail(s), acc)
    ELSE DigitsValue(Tail(s), 10 * acc + DigitVal(Head(s)))

\* int(text): surrounding whitespace and a sign are accepted, single
\* underscores may separate digits; anything else raises ValueError (ok = FALSE)
PyInt(text) ==
    LET t    == Strip(text)
        sgn  == t # <<>> /\ Head(t) \in {"+", "-"}
        body == IF sgn THEN Tail(t) ELSE t
        wellFormed ==
            /\ body # <<>>
            /\ \A i \in 1..Len(body) : IsDigit(body[i]) \/ body[i] = "_"
            /\ body[1] # "_" /\ body[Len(body)] # "_"
            /\ \A i \in 1..(Len(body) - 1) : ~(body[i] = "_" /\ body[i + 1] = "_")
    IN  IF ~wellFormed THEN [ok |-> FALSE, val |-> 0]
        ELSE [ok |-> TRUE,
              val |-> IF sgn /\ Head(t) = "-" THEN 0 - DigitsValue(body, 0)
                      ELSE DigitsValue(body, 0)]

----------------------------------------------------------------------------
(* JSON values *)

JNull == <<"null", 0>>
JBool(b) == <<"bool", b>>
JInt(n) == <<"int", n>>
JFloat(lexeme) == <<"float", lexeme>>
JStr(s) == <<"str", s>>
JList(items) == <<"list", items>>
JObj(fields) == <<"obj", fields>>
None == JNull

Kind(j) == j[1]
Val(j) == j[2]

EmptyFields == [k \in {} |-> JNull]

\* isinstance(x, dict), isinstance(x, list), isinstance(x, str)
IsDict(j) == Kind(j) = "obj"
IsList(j) == Kind(j) = "list"
IsStr(j) == Kind(j) = "str"

\* Python truth value of a decoded JSON value
Truthy(j) ==
    CASE Kind(j) = "null"  -> FALSE
      [] Kind(j) = "bool"  -> Val(j)
      [] Kind(j) = "int"   -> Val(j) # 0
      [] Kind(j) = "float" -> \E i \in 1..Len(Val(j)) :
                                 /\ Val(j)[i] \notin {"0", ".", "-", "+", "e", "E"}
                                 /\ \A h \in 1..i : Val(j)[h] \notin {"e", "E"}
      [] Kind(j) = "str"   -> Val(j) # <<>>
      [] Kind(j) = "list"  -> Val(j) # <<>>
      [] Kind(j) = "obj"   -> DOMAIN Val(j) # {}

\* a or b
Or(a, b) == IF Truthy(a) THEN a ELSE b

\* dict.get(key) and dict.get(key, default)
GetOr(d, key, default) == IF key \in DOMAIN Val(d) THEN Val(d)[key] ELSE default
Get(d, key) == GetOr(d, key, None)

\* str(x) for the scalar values a JSON field can hold, and for the empty containers
PyStr(j) ==
    CASE Kind(j) = "str"   -> Val(j)
      [] Kind(j) = "null"  -> <<"N","o","n","e">>
      [] Kind(j) = "bool"  -> IF Val(j) THEN <<"T","r","u","e">> ELSE <<"F","a","l","s","e">>
      [] Kind(j) = "int"   -> IntText(Val(j))
      [] Kind(j) = "float" -> Val(j)
      [] Kind(j) = "list" /\ Val(j) = <<>> -> <<"[","]">>
      [] Kind(j) = "obj" /\ DOMAIN Val(j) = {} -> <<"{","}">>

----------------------------------------------------------------------------
(* json.loads (the standard decoder), character by character.  A parse    *)
(* result is [ok, val, pos]: pos is the index after the value; ok = FALSE *)
(* stands for json.JSONDecodeError.  String escapes other than the        *)
(* one-character ones (\uXXXX) are outside the texts drawn below.         *)

ParseFail == [ok |-> FALSE, val |-> JNull, pos |-> 0]
ParseOk(v, p) == [ok |-> TRUE, val |-> v, pos |-> p]

At(s, i) == IF i >= 1 /\ i <= Len(s) THEN s[i] ELSE ""
StartsAt(s, i, word) ==
    i >= 1 /\ i + Len(word) - 1 <= Len(s) /\ SubSeq(s, i, i + Len(word) - 1) = word

RECURSIVE SkipWs(_, _)
SkipWs(s, i) == IF At(s, i) \in Whitespace THEN SkipWs(s, i + 1) ELSE i

RECURSIVE ScanDigits(_, _)
ScanDigits(s, i) == IF IsDigit(At(s, i)) THEN ScanDigits(s, i + 1) ELSE i

Unescape(c) ==
    CASE c = "n" -> "\n" [] c = "t" -> "\t" [] c = "r" -> "\r"
      [] c = "b" -> "^H" [] c = "f" -> "^L" [] OTHER -> c

\* scanstring: i is the index after the opening quote
RECURSIVE ScanString(_, _, _)
ScanString(s, i, acc) ==
    IF i > Len(s) \/ s[i] \in {"\n", "\t", "\r"} THEN ParseFail
    ELSE IF s[i] = "\"" THEN ParseOk(JStr(acc), i + 1)
    ELSE IF s[i] = "\\"
         THEN IF At(s, i + 1) \in {"\"", "\\", "/", "b", "f", "n", "r", "t"}
              THEN ScanString(s, i + 2, Append(acc, Unescape(s[i + 1])))
              ELSE ParseFail
    ELSE ScanString(s, i + 1, Append(acc, s[i]))

\* NUMBER_RE: -?(0|[1-9][0-9]*)(\.[0-9]+)?([eE][-+]?[0-9]+)?
ScanNumber(s, i) ==
    LET d0      == IF At(s, i) = "-" THEN i + 1 ELSE i
        intEnd  == IF At(s, d0) = "0" THEN d0 + 1 ELSE ScanDigits(s, d0)
        fracEnd == IF At(s, intEnd) = "." /\ IsDigit(At(s, intEnd + 1))
                   THEN ScanDigits(s, intEnd + 1) ELSE intEnd
        e0      == IF At(s, fracEnd + 1) \in {"+", "-"} THEN fracEnd + 2 ELSE fracEnd + 1
        expEnd  == IF At(s, fracEnd) \in {"e", "E"} /\ IsDigit(At(s, e0))
                   THEN ScanDigits(s, e0) ELSE fracEnd
    IN  IF intEnd = d0 THEN ParseFail
        ELSE IF expEnd = intEnd
             THEN ParseOk(JInt(IF d0 > i THEN 0 - DigitsValue(SubSeq(s, d0, intEnd - 1), 0)
                               ELSE DigitsValue(SubSeq(s, d0, intEnd - 1), 0)), intEnd)
             ELSE ParseOk(JFloat(SubSeq(s, i, expEnd - 1)), expEnd)

W_null == <<"n","u","l","l">>
W_true == <<"t","r","u","e">>
W_false == <<"f","a","l","s","e">>
W_NaN == <<"N","a","N">>
W_Infinity == <<"I","n","f","i","n","i","t","y">>
W_NegInfinity == <<"-">> \o W_Infinity

RECURSIVE ScanOnce(_, _)
RECURSIVE ScanArray(_, _, _)
RECURSIVE ScanObject(_, _, _)

\* JSONArray: i is the index of the next element, acc the elements so far
ScanArray(s, i, acc) ==
    LET v == ScanOnce(s, i)
        j == SkipWs(s, v.pos)
    IN  IF ~v.ok THEN ParseFail
        ELSE IF At(s, j) = "]" THEN ParseOk(JList(Append(acc, v.val)), j + 1)
        ELSE IF At(s, j) = "," THEN ScanArray(s, SkipWs(s, j + 1), Append(acc, v.val))
        ELSE ParseFail

\* JSONObject: i is the index of the next key's opening quote, acc the pairs so far
ScanObject(s, i, acc) ==
    LET key   == ScanString(s, i + 1, <<>>)
        colon == SkipWs(s, key.pos)
        v     == ScanOnce(s, SkipWs(s, colon + 1))
        j     == SkipWs(s, v.pos)
        put   == [k \in DOMAIN acc \cup {Val(key.val)} |->
                     IF k = Val(key.val) THEN v.val ELSE acc[k]]
    IN  IF At(s, i) # "\"" THEN ParseFail
        ELSE IF ~key.ok \/ At(s, colon) # ":" THEN ParseFail
        ELSE IF ~v.ok THEN ParseFail
        ELSE IF At(s, j) = "}" THEN ParseOk(JObj(put), j + 1)
        ELSE IF At(s, j) = "," THEN ScanObject(s, SkipWs(s, j + 1), put)
        ELSE ParseFail

\* scan_once: one value starting exactly at index i
ScanOnce(s, i) ==
    LET c == At(s, i)
    IN  IF c = "\"" THEN ScanString(s, i + 1, <<>>)
        ELSE IF c = "{"
             THEN IF At(s, SkipWs(s, i + 1)) = "}"
                  THEN ParseOk(JObj(EmptyFields), SkipWs(s, i + 1) + 1)
                  ELSE ScanObject(s, SkipWs(s, i + 1), EmptyFields)
        ELSE IF c = "["
             THEN IF At(s, SkipWs(s, i + 1)) = "]"
                  THEN ParseOk(JList(<<>>), SkipWs(s, i + 1) + 1)
                  ELSE ScanArray(s, SkipWs(s, i + 1), <<>>)
        ELSE IF StartsAt(s, i, W_null) THEN ParseOk(JNull, i + 4)
        ELSE IF StartsAt(s, i, W_true) THEN ParseOk(JBool(TRUE), i + 4)
        ELSE IF StartsAt(s, i, W_false) THEN ParseOk(JBool(FALSE), i + 5)
        ELSE IF ScanNumber(s, i).ok THEN ScanNumber(s, i)
        ELSE IF StartsAt(s, i, W_NaN) THEN ParseOk(JFloat(W_NaN), i + 3)
        ELSE IF StartsAt(s, i, W_Infinity) THEN ParseOk(JFloat(W_Infinity), i + 8)
        ELSE IF StartsAt(s, i, W_NegInfinity) THEN ParseOk(JFloat(W_NegInfinity), i + 9)
        ELSE ParseFail

\* json.loads(x): TypeError when x is not text, JSONDecodeError when the
\* text is not exactly one JSON value between optional whitespace
JsonLoads(x) ==
    IF ~IsStr(x) THEN [ok |-> FALSE, err |-> "TypeError", val |-> JNull]
    ELSE LET s == Val(x)
             v == ScanOnce(s, SkipWs(s, 1))
         IN  IF v.ok /\ SkipWs(s, v.pos) = Len(s) + 1
             THEN [ok |-> TRUE, err |-> "", val |-> v.val]
             ELSE [ok |-> FALSE, err |-> "JSONDecodeError", val |-> JNull]

----------------------------------------------------------------------------
(* The literals of _handle_response *)

K_status == <<"s","t","a","t","u","s">>
K_code == <<"c","o","d","e">>
K_message == <<"m","e","s","s","a","g","e">>
K_error == <<"e","r","r","o","r">>
K_data == <<"d","a","t","a">>
K_errors == <<"e","r","r","o","r","s">>
H_RetryAfter == <<"R","e","t","r","y","-","A","f","t","e","r">>
T_ok == <<"o","k">>
T_00 == <<"0","0">>
T_fail == <<"f","a","i","l">>
T_failed == <<"f","a","i","l","e","d">>
T_01 == <<"0","1">>
EC03100001 == <<"E","C","0","3","1","0","0","0","0","1">>
EC03100032 == <<"E","C","0","3","1","0","0","0","3","2">>
EC03100003 == <<"E","C","0","3","1","0","0","0","0","3">>
EC011401 == <<"E","C","0","1","1","4","0","1">>
EC0110 == <<"E","C","0","1","1","0">>
EC0118 == <<"E","C","0","1","1","8">>
EC011400 == <<"E","C","0","1","1","4","0","0">>
T_UnknownError == <<"U","n","k","n","o","w","n"," ","e","r","r","o","r">>
T_RequestFailed == <<"R","e","q","u","e","s","t"," ","f","a","i","l","e","d">>
T_ValidationError == <<"V","a","l","i","d","a","t","i","o","n"," ","e","r","r","o","r">>
T_ServerErrorPrefix == <<"S","e","r","v","e","r"," ","e","r","r","o","r",":"," ">>
T_InvalidResponsePrefix == <<"I","n","v","a","l","i","d"," ","r","e","s","p","o","n","s","e",":"," ">>
T_not_found == <<"n","o","t"," ","f","o","u","n","d">>
T_undefined_index == <<"u","n","d","e","f","i","n","e","d"," ","i","n","d","e","x">>

----------------------------------------------------------------------------
(* HTTPClient._handle_response.  A response is                            *)
(*    [received, status_code, headers, body]                              *)
(* with headers a function from header name to text.  body is either      *)
(* <<"text", t>>, the raw body text t as received, which response.json()  *)
(* has to decode, or the JSON value that the body text decodes to.        *)
(* The result of a call is an outcome record:                             *)
(*    k = "return": payload is the value returned;                        *)
(*    k = "raise":  kind is the ESB exception class, with its attributes; *)
(*    k = "crash":  kind is the Python exception that escapes instead.    *)
(* rule names the group of statements that ended the call: "non_json"     *)
(* (lines 184-194), "list" (197-213), "success" (225-228), "status_code"  *)
(* (237-276), "body_status" (281-339), "generic" (342), and "body_shape"  *)
(* for the data.get of line 218 on a body that is no object; "transport"  *)
(* is request()'s own except clauses (153-165).                           *)

NoOutcome ==
    [k |-> "none", rule |-> "", kind |-> "", payload |-> None, message |-> None,
     code |-> None,
     status_code |-> None, response_data |-> None, validation_errors |-> None,
     retry_after |-> None]

Return(payload) == [NoOutcome EXCEPT !.k = "return", !.payload = payload]

Raise(kind, message, kwargs) ==
    [NoOutcome EXCEPT !.k = "raise", !.kind = kind, !.message = message,
                      !.code = kwargs.code, !.status_code = kwargs.status_code,
                      !.response_data = kwargs.response_data]

RaiseValidation(message, kwargs, validation_errors) ==
    [Raise("ESBValidationError", message, kwargs)
        EXCEPT !.validation_errors = validation_errors]

RaiseRateLimit(message, kwargs, retry_after) ==
    [Raise("ESBRateLimitError", message, kwargs) EXCEPT !.retry_after = retry_after]

Crash(exception) == [NoOutcome EXCEPT !.k = "crash", !.kind = exception]

By(rule, result) == [result EXCEPT !.rule = rule]

\* the keyword arguments of a raise that passes only status_code
StatusOnly(status_code) ==
    [code |-> None, status_code |-> JInt(status_code), response_data |-> None]

\* response.text
ResponseText(response) == Val(response.body)

\* response.json(): the decoded body, or ValueError (ok = FALSE)
ResponseJson(response) ==
    IF Kind(response.body) = "text" THEN JsonLoads(JStr(ResponseText(response)))
    ELSE [ok |-> TRUE, err |-> "", val |-> response.body]

\* NonJsonFailure with the boundary off by one: 500 is no longer a server error
NonJsonFailure_Above500(response) ==
    IF response.status_code > 500
    THEN Raise("ESBServerError", JStr(T_ServerErrorPrefix \o ResponseText(response)),
               StatusOnly(response.status_code))
    ELSE Raise("ESBError", JStr(T_InvalidResponsePrefix \o ResponseText(response)),
               StatusOnly(response.status_code))

\* lines 184-194: the body is not JSON
NonJsonFailure(response) ==
    IF response.status_code >= 500
    THEN Raise("ESBServerError", JStr(T_ServerErrorPrefix \o ResponseText(response)),
               StatusOnly(response.status_code))
    ELSE Raise("ESBError", JStr(T_InvalidResponsePrefix \o ResponseText(response)),
               StatusOnly(response.status_code))

\* ListFailureKind with the object bodies' status table applied to lists
ListFailureKind_AsForObjects(status_code) ==
    IF status_code = 401 THEN "ESBAuthenticationError"
    ELSE IF status_code = 403 THEN "ESBAuthorizationError"
    ELSE IF status_code = 404 THEN "ESBNotFoundError"
    ELSE IF status_code = 405 THEN "ESBMethodNotAllowedError"
    ELSE IF status_code = 429 THEN "ESBRateLimitError"
    ELSE IF status_code \in {400, 422} THEN "ESBValidationError"
    ELSE IF status_code >= 500 THEN "ESBServerError"
    ELSE "ESBError"

\* lines 204-212: the exception class for a list body with status >= 400
ListFailureKind(status_code) ==
    IF status_code = 401 THEN "ESBAuthenticationError"
    ELSE IF status_code = 403 THEN "ESBAuthorizationError"
    ELSE IF status_code = 404 THEN "ESBNotFoundError"
    ELSE IF status_code >= 500 THEN "ESBServerError"
    ELSE "ESBError"

\* lines 197-213: the body is a list
HandleList(response, json_data) ==
    IF response.status_code >= 400
    THEN LET items == Val(json_data)
             msg == IF items # <<>> /\ IsDict(items[1])
                    THEN GetOr(items[1], K_message, JStr(T_RequestFailed))
                    ELSE JStr(T_RequestFailed)
         IN  Raise(ListFailureKind(response.status_code), msg,
                   StatusOnly(response.status_code))
    ELSE Return(json_data)

\* line 218: str(data.get("status", "")).lower()
BodyStatus(data) == Lower(PyStr(GetOr(data, K_status, JStr(<<>>))))

\* line 221: data.get("message") or data.get("error") or "Unknown error"
BodyMessage(data) ==
    Or(Or(Get(data, K_message), Get(data, K_error)), JStr(T_UnknownError))

\* IsSuccess without the override of the HTTP status by "ok" and "00"
IsSuccess_StatusCodeFirst(status, status_code) ==
    status \notin {T_fail, T_failed, T_01} /\ status_code < 400

\* lines 225-227: the success test
IsSuccess(status, status_code) ==
    \/ status \in {T_ok, T_00}
    \/ (status \notin {T_fail, T_failed, T_01} /\ status_code < 400)

\* lines 255-260: the 429 rule; int() of a header that is no integer raises ValueError
RateLimitFailure(response, message, kwargs) ==
    LET retry_after == GetOr(JObj(response.headers), H_RetryAfter, None)
    IN  IF ~Truthy(retry_after) THEN RaiseRateLimit(message, kwargs, None)
        ELSE IF PyInt(Val(retry_after)).ok
             THEN RaiseRateLimit(message, kwargs, JInt(PyInt(Val(retry_after)).val))
             ELSE Crash("ValueError")

\* StatusCodeFailure without the 405 rule
StatusCodeFailure_Without405(response, data, message, kwargs) ==
    LET sc == response.status_code
    IN  IF sc = 401 THEN Raise("ESBAuthenticationError", message, kwargs)
        ELSE IF sc = 403 THEN Raise("ESBAuthorizationError", message, kwargs)
        ELSE IF sc = 404 THEN Raise("ESBNotFoundError", message, kwargs)
        ELSE IF sc = 429 THEN RateLimitFailure(response, message, kwargs)
        ELSE IF sc \in {400, 422}
             THEN RaiseValidation(message, kwargs,
                                  Or(Get(data, K_data), Get(data, K_errors)))
        ELSE IF sc >= 500 THEN Raise("ESBServerError", message, kwargs)
        ELSE NoOutcome

\* lines 237-276: the HTTP-status rules, first match wins; NoOutcome when
\* none applies and control falls through to line 281
StatusCodeFailure(response, data, message, kwargs) ==
    LET sc == response.status_code
    IN  IF sc = 401 THEN Raise("ESBAuthenticationError", message, kwargs)
        ELSE IF sc = 403 THEN Raise("ESBAuthorizationError", message, kwargs)
        ELSE IF sc = 404 THEN Raise("ESBNotFoundError", message, kwargs)
        ELSE IF sc = 405 THEN Raise("ESBMethodNotAllowedError", message, kwargs)
        ELSE IF sc = 429 THEN RateLimitFailure(response, message, kwargs)
        ELSE IF sc \in {400, 422}
             THEN RaiseValidation(message, kwargs,
                                  Or(Get(data, K_data), Get(data, K_errors)))
        ELSE IF sc >= 500 THEN Raise("ESBServerError", message, kwargs)
        ELSE NoOutcome

\* lines 303-320: code EC0110; message.lower() of a message that is not
\* text raises AttributeError
NotFoundOrValidation(message, kwargs) ==
    LET parsed_message == JsonLoads(message)
    IN  IF parsed_message.ok /\ IsDict(parsed_message.val)
        THEN RaiseValidation(JStr(T_ValidationError), kwargs, parsed_message.val)
        ELSE IF ~IsStr(message) THEN Crash("AttributeError")
        ELSE IF Contains(T_not_found, Lower(Val(message)))
             THEN Raise("ESBNotFoundError", message, kwargs)
        ELSE Raise("ESBError", message, kwargs)

\* MessageHeuristic taking a body with an errors field for a validation failure
MessageHeuristic_ErrorsField(message, kwargs) ==
    IF ~IsStr(message) THEN Crash("AttributeError")
    ELSE IF \/ Contains(T_undefined_index, Lower(Val(message)))
            \/ Truthy(Get(kwargs.response_data, K_errors))
         THEN RaiseValidation(message, kwargs, None)
    ELSE Raise("ESBError", message, kwargs)

\* lines 334-339: no code-specific rule applied
MessageHeuristic(message, kwargs) ==
    IF ~IsStr(message) THEN Crash("AttributeError")
    ELSE IF Contains(T_undefined_index, Lower(Val(message)))
         THEN RaiseValidation(message, kwargs, None)
    ELSE Raise("ESBError", message, kwargs)

\* lines 281-339: the body declares failure
BodyStatusFailure(data, code, message, kwargs) ==
    IF Truthy(code) /\ IsStr(code) /\ Val(code) \in {EC03100001, EC03100032}
    THEN Raise("ESBAuthenticationError", message, kwargs)
    ELSE IF Truthy(code) /\ IsStr(code) /\ Val(code) = EC03100003
         THEN RaiseValidation(message, kwargs, Get(data, K_errors))
    ELSE IF Truthy(code) /\ IsStr(code) /\ Val(code) = EC011401
         THEN Raise("ESBAuthenticationError", message, kwargs)
    ELSE IF Truthy(code) /\ IsStr(code) /\ Val(code) = EC0110
         THEN NotFoundOrValidation(message, kwargs)
    ELSE IF Truthy(code) /\ IsStr(code) /\ Val(code) = EC0118
         THEN RaiseValidation(message, kwargs, None)
    ELSE IF Truthy(code) /\ IsStr(code) /\ Val(code) = EC011400
         THEN RaiseValidation(message, kwargs, Get(data, K_data))
    ELSE MessageHeuristic(message, kwargs)

\* lines 215-342: the body is an object
HandleDict(response, data) ==
    LET status  == BodyStatus(data)
        code    == Get(data, K_code)
        message == BodyMessage(data)
        error_kwargs == [code |-> code, status_code |-> JInt(response.status_code),
                         response_data |-> data]
        byStatusCode == StatusCodeFailure(response, data, message, error_kwargs)
    IN  IF IsSuccess(status, response.status_code) THEN By("success", Return(data))
        ELSE IF byStatusCode # NoOutcome THEN By("status_code", byStatusCode)
        ELSE IF status \in {T_fail, T_failed, T_01}
             THEN By("body_status", BodyStatusFailure(data, code, message, error_kwargs))
        ELSE By("generic", Raise("ESBError", message, error_kwargs))

\* lines 170-342; a decoded body that is neither list nor object has no
\* .get, so data.get raises AttributeError
HandleResponse(response) ==
    LET json == ResponseJson(response)
    IN  IF ~json.ok THEN By("non_json", NonJsonFailure(response))
        ELSE IF IsList(json.val) THEN By("list", HandleList(response, json.val))
        ELSE IF IsDict(json.val) THEN HandleDict(response, json.val)
        ELSE By("body_shape", Crash("AttributeError"))

----------------------------------------------------------------------------
(* The remote service: what it can put on the wire.  The shapes are the   *)
(* ones esb_oms/exceptions.py documents, with fields of other JSON types  *)
(* and malformed bodies added.                                            *)

W_OK == <<"O","K">>
W_Failed == <<"F","a","i","l","e","d">>
W_error == <<"e","r","r","o","r">>
W_EC9999 == <<"E","C","9","9","9","9">>
W_InvalidToken == <<"I","n","v","a","l","i","d"," ","T","o","k","e","n">>
W_BranchNotFound == <<"B","r","a","n","c","h"," ","N","o","t"," ","F","o","u","n","d">>
W_UndefinedIndex == <<"U","n","d","e","f","i","n","e","d"," ","i","n","d","e","x",":"," ","i","d">>
W_UNDEFINED_INDEX == <<"U","N","D","E","F","I","N","E","D"," ","I","N","D","E","X",":"," ","b","r","a","n","c","h">>
W_JsonObject == <<"{","\"","n","a","m","e","\"",":"," ","\"","n","o","t"," ","f","o","u","n","d","\"","}">>
W_JsonString == <<"\"","n","o","t"," ","f","o","u","n","d","\"">>
W_JsonNumber == <<"7">>
W_JsonCut == <<"{","\"","n","a","m","e","\"",":">>
W_name == <<"n","a","m","e">>
W_required == <<"r","e","q","u","i","r","e","d">>
W_FieldRequired == <<"f","i","e","l","d"," ","X"," ","r","e","q","u","i","r","e","d">>
W_Unauthorized == <<"U","n","a","u","t","h","o","r","i","z","e","d">>
W_Html == <<"<","h","t","m","l",">","B","a","d"," ","G","a","t","e","w","a","y","<","/","h","t","m","l",">">>
W_five == <<"5">>
W_abc == <<"a","b","c">>
W_HttpDate == <<"W","e","d",","," ","2","1"," ","O","c","t"," ","2","0","1","5"," ","0","7",":","2","8",":","0","0"," ","G","M","T">>
W_padded == <<" ","1","2","0"," ">>

\* a field left out of a body
Absent == <<"absent", 0>>

\* the object with the fields that are not Absent
MkObject(pairs) ==
    LET present == {i \in DOMAIN pairs : pairs[i][2] # Absent}
    IN  JObj([key \in {pairs[i][1] : i \in present} |->
                 pairs[CHOOSE i \in present : pairs[i][1] = key][2]])

MkBody(status, code, message, error, data, errors) ==
    MkObject(<< <<K_status, status>>, <<K_code, code>>, <<K_message, message>>,
                <<K_error, error>>, <<K_data, data>>, <<K_errors, errors>> >>)

StatusCodes == {200, 399, 400, 401, 402, 403, 404, 405, 422, 429, 499, 500, 503}

StatusValues ==
    {Absent, JStr(T_ok), JStr(W_OK), JStr(T_00), JStr(T_fail), JStr(W_Failed),
     JStr(T_01), JStr(W_error), JInt(401), JNull}

CodeValues ==
    {Absent, JStr(EC03100001), JStr(EC03100032), JStr(EC03100003), JStr(EC011401),
     JStr(EC0110), JStr(EC0118), JStr(EC011400), JStr(W_EC9999), JInt(400)}

\* <<message, error>>
MessageErrorPairs ==
    { <<Absent, Absent>>,
      <<Absent, JStr(W_BranchNotFound)>>,
      <<JStr(<<>>), JStr(W_UndefinedIndex)>>,
      <<JStr(W_InvalidToken), Absent>>,
      <<JStr(W_BranchNotFound), JStr(W_UndefinedIndex)>>,
      <<JStr(W_UNDEFINED_INDEX), Absent>>,
      <<JStr(W_JsonObject), Absent>>,
      <<JStr(W_JsonString), Absent>>,
      <<JStr(W_JsonNumber), Absent>>,
      <<JStr(W_JsonCut), Absent>>,
      <<JInt(7), Absent>>,
      <<JObj((W_name :> JList(<<JStr(W_required)>>))), Absent>> }

DataList == JList(<<JStr(W_FieldRequired)>>)
ErrorsObject == JObj((W_name :> JList(<<JStr(W_required)>>)))

\* <<data, errors>>
DetailPairs ==
    { <<Absent, Absent>>, <<DataList, ErrorsObject>>,
      <<JList(<<>>), ErrorsObject>>, <<Absent, ErrorsObject>> }

NoHeaders == EmptyFields
RetryAfter(value) == (H_RetryAfter :> JStr(value))

HeaderValues ==
    {NoHeaders, RetryAfter(W_five), RetryAfter(W_padded), RetryAfter(<<>>),
     RetryAfter(W_abc), RetryAfter(W_HttpDate)}

W_x == <<"x">>
W_SingleQuoted == <<"{","'","s","t","a","t","u","s","'",":"," ","'","o","k","'","}">>
W_CutBody == <<"{","\"","s","t","a","t","u","s","\"",":">>
T_RequestTo == <<"R","e","q","u","e","s","t"," ","t","o"," ">>
T_TimedOutAfter == <<" ","t","i","m","e","d"," ","o","u","t"," ","a","f","t","e","r"," ">>
T_s == <<"s">>
T_FailedToConnectTo == <<"F","a","i","l","e","d"," ","t","o"," ","c","o","n","n","e","c","t"," ","t","o"," ">>
T_Colon == <<":"," ">>
T_HttpErrorOccurred == <<"H","T","T","P"," ","e","r","r","o","r"," ","o","c","c","u","r","r","e","d",":"," ">>
W_BaseUrl == <<"h","t","t","p","s",":","/","/","c","o","r","e",".","e","x","a","m","p","l","e">>
W_Path == <<"/","a","u","t","h","/","l","o","g","i","n">>
W_TimeoutText == <<"3","0",".","0">>
W_Cause == <<"c","o","n","n","e","c","t","i","o","n"," ","r","e","s","e","t">>

W_QuotedFail == <<"\"","f","a","i","l","\"">>
W_EmptyList == <<"[","]">>
W_ListOfMessage == <<"[","{","\"","m","e","s","s","a","g","e","\"",":"," ","\"","U","n","a","u","t","h","o","r","i","z","e","d","\"","}","]">>
W_OkObject == <<"{","\"","s","t","a","t","u","s","\"",":"," ","\"","o","k","\"",","," ","\"","c","o","d","e","\"",":"," ","4","0","1","}">>

\* the longest list body drawn
MaxListLen == 2

ListItems ==
    { MkObject(<< <<K_message, JStr(W_Unauthorized)>> >>),
      MkObject(<< <<K_code, JInt(401)>> >>),
      MkObject(<< <<K_message, JNull>> >>),
      JInt(1),
      JStr(W_x) }

ListBodies == {JList(items) : items \in UNION {[1..n -> ListItems] : n \in 0..MaxListLen}}

\* raw body texts that are not JSON
NonJsonTexts == {<<>>, W_Html, W_OK, W_SingleQuoted, W_CutBody}

\* raw body texts that are JSON for a scalar, a list, an object
JsonTexts == {W_null, W_true, W_five, W_QuotedFail, W_EmptyList, W_ListOfMessage, W_OkObject}

RawTexts == NonJsonTexts \cup JsonTexts

NoResponse ==
    [received |-> FALSE, status_code |-> 0, headers |-> NoHeaders, body |-> <<"text", <<>>>>]

Response(status_code, headers, body) ==
    [received |-> TRUE, status_code |-> status_code, headers |-> headers, body |-> body]

\* object bodies: every status code, status, code and message/error combination
ObjectResponses ==
    {Response(sc, NoHeaders, MkBody(st, code, me[1], me[2], DataList, ErrorsObject)) :
        sc \in StatusCodes, st \in StatusValues, code \in CodeValues,
        me \in MessageErrorPairs}

\* object bodies: every data/errors and header combination, for the codes
\* that read data or errors
DetailResponses ==
    {Response(sc, h, MkBody(st, code, JStr(W_InvalidToken), Absent, d[1], d[2])) :
        sc \in StatusCodes, st \in StatusValues,
        code \in {Absent, JStr(EC03100003), JStr(EC011400)},
        d \in DetailPairs, h \in HeaderValues}

ListResponses ==
    {Response(sc, h, b) :
        sc \in StatusCodes, h \in {NoHeaders, RetryAfter(W_abc)}, b \in ListBodies}

TextResponses ==
    {Response(sc, h, <<"text", text>>) :
        sc \in StatusCodes, h \in {NoHeaders, RetryAfter(W_abc)}, text \in RawTexts}

\* what httpx raises when the call does not complete, with the classes
\* each one is an instance of
NetworkExceptions == {"ConnectTimeout", "ReadTimeout", "ConnectError", "ReadError",
                      "RemoteProtocolError"}
IsTimeoutException(e) == e \in {"ConnectTimeout", "ReadTimeout"}
IsConnectError(e) == e = "ConnectError"

----------------------------------------------------------------------------
(* HTTPClient.request *)

\* pc is the position of the one request() call in flight: "calling" while
\* self.client.request runs, "handling" once a response is in, then "done"
\* client is the BaseClient the caller holds and last the operation it
\* ran last (the session manager, below); conn tells of each of the four
\* HTTP clients of the BaseClient whether it holds an httpx.Client
VARIABLES pc, response, outcome, client, last, conn
vars == <<pc, response, outcome, client, last, conn>>

NoKwargs == [code |-> None, status_code |-> None, response_data |-> None]

\* lines 153-165: the call did not complete
TransportFailure(e) ==
    IF IsTimeoutException(e)
    THEN Raise("ESBTimeoutError",
               JStr(T_RequestTo \o W_Path \o T_TimedOutAfter \o W_TimeoutText \o T_s),
               NoKwargs)
    ELSE IF IsConnectError(e)
         THEN Raise("ESBConnectionError",
                    JStr(T_FailedToConnectTo \o W_BaseUrl \o T_Colon \o W_Cause), NoKwargs)
    ELSE Raise("ESBConnectionError", JStr(T_HttpErrorOccurred \o W_Cause), NoKwargs)

----------------------------------------------------------------------------
(* The session manager: BaseClient (esb_oms/_base.py), AuthAPI             *)
(* (esb_oms/api/auth.py) and the models of esb_oms/models/auth.py.  A      *)
(* Python value is written as a JSON value (None is the JSON null, a str   *)
(* is <<"str", text>>); a TokenInfo is <<"TokenInfo", fields>>.  Each      *)
(* operation is a blocking call, so it is one step.  reply is what the     *)
(* network does to the request an operation sends: <<"response", r>> or    *)
(* <<"exception", e>> with e one of NetworkExceptions; o is the outcome    *)
(* of HTTPClient.request for that reply.                                   *)

K_result == <<"r","e","s","u","l","t">>
K_username == <<"u","s","e","r","n","a","m","e">>
K_fullName == <<"f","u","l","l","N","a","m","e">>
K_companyID == <<"c","o","m","p","a","n","y","I","D">>
K_companyCode == <<"c","o","m","p","a","n","y","C","o","d","e">>
K_companyName == <<"c","o","m","p","a","n","y","N","a","m","e">>
K_accessToken == <<"a","c","c","e","s","s","T","o","k","e","n">>
K_refreshToken == <<"r","e","f","r","e","s","h","T","o","k","e","n">>
K_flagActive == <<"f","l","a","g","A","c","t","i","v","e">>
K_logInfo == <<"l","o","g","I","n","f","o">>
K_logID == <<"l","o","g","I","D">>
K_loginTime == <<"l","o","g","i","n","T","i","m","e">>
K_logoutTime == <<"l","o","g","o","u","t","T","i","m","e">>
N_full_name == <<"f","u","l","l","_","n","a","m","e">>
N_company_id == <<"c","o","m","p","a","n","y","_","i","d">>
N_company_code == <<"c","o","m","p","a","n","y","_","c","o","d","e">>
N_company_name == <<"c","o","m","p","a","n","y","_","n","a","m","e">>
N_access_token == <<"a","c","c","e","s","s","_","t","o","k","e","n">>
N_refresh_token == <<"r","e","f","r","e","s","h","_","t","o","k","e","n">>
N_flag_active == <<"f","l","a","g","_","a","c","t","i","v","e">>
N_log_info == <<"l","o","g","_","i","n","f","o">>
N_log_id == <<"l","o","g","_","i","d">>
N_login_time == <<"l","o","g","i","n","_","t","i","m","e">>
N_logout_time == <<"l","o","g","o","u","t","_","t","i","m","e">>
H_Authorization == <<"A","u","t","h","o","r","i","z","a","t","i","o","n">>
T_Bearer == <<"B","e","a","r","e","r"," ">>
T_MustProvide == <<"M","u","s","t"," ","p","r","o","v","i","d","e"," ","e","i","t","h","e","r"," ","(","u","s","e","r","n","a","m","e",","," ","p","a","s","s","w","o","r","d",")"," ","o","r"," ","s","t","a","t","i","c","_","t","o","k","e","n">>
T_CannotLogin == <<"C","a","n","n","o","t"," ","l","o","g","i","n",":"," ","n","o"," ","c","r","e","d","e","n","t","i","a","l","s"," ","p","r","o","v","i","d","e","d">>
T_CannotRefresh == <<"C","a","n","n","o","t"," ","r","e","f","r","e","s","h",":"," ","n","o"," ","r","e","f","r","e","s","h"," ","t","o","k","e","n"," ","a","v","a","i","l","a","b","l","e">>
T_FailedToRefresh == <<"F","a","i","l","e","d"," ","t","o"," ","r","e","f","r","e","s","h"," ","t","o","k","e","n">>
T_UnexpectedLogin == <<"U","n","e","x","p","e","c","t","e","d"," ","r","e","s","p","o","n","s","e"," ","f","o","r","m","a","t"," ","f","r","o","m"," ","l","o","g","i","n"," ","A","P","I">>
T_UnexpectedRefresh == <<"U","n","e","x","p","e","c","t","e","d"," ","r","e","s","p","o","n","s","e"," ","f","o","r","m","a","t"," ","f","r","o","m"," ","r","e","f","r","e","s","h"," ","A","P","I">>

\* an exception leaving an operation; kind "" when the operation returned
NoException ==
    [kind |-> "", message |-> None, code |-> None, status_code |-> None,
     response_data |-> None]

PyException(kind, message) == [NoException EXCEPT !.kind = kind, !.message = message]

\* the exception that leaves HTTPClient.request with this outcome
ExceptionOf(o) ==
    [kind |-> o.kind, message |-> o.message, code |-> o.code,
     status_code |-> o.status_code, response_data |-> o.response_data]

\* isinstance(e, ESBAuthenticationError): the class and its two subclasses
IsAuthenticationError(e) ==
    e.kind \in {"ESBAuthenticationError", "ESBTokenExpiredError", "ESBTokenRefreshError"}

\* TokenRefreshError without the code of the failure it replaces
TokenRefreshError_WithoutCode(e) ==
    [kind |-> "ESBTokenRefreshError", message |-> JStr(T_FailedToRefresh),
     code |-> None, status_code |-> e.status_code, response_data |-> e.response_data]

\* ESBTokenRefreshError("Failed to refresh token", code=e.code, ...)
TokenRefreshError(e) ==
    [kind |-> "ESBTokenRefreshError", message |-> JStr(T_FailedToRefresh),
     code |-> e.code, status_code |-> e.status_code, response_data |-> e.response_data]

\* HTTPClient.request, given what the network does
Request(reply) ==
    IF reply[1] = "exception" THEN By("transport", TransportFailure(reply[2]))
    ELSE HandleResponse(reply[2])

\* a field of a model read from a dict under its alias or, populate_by_name,
\* under its name
Field(v, alias, name) ==
    IF alias \in DOMAIN Val(v) THEN Val(v)[alias]
    ELSE IF name \in DOMAIN Val(v) THEN Val(v)[name]
    ELSE Absent

\* a str field: str_strip_whitespace strips the accepted text
IsStrField(x) == x # Absent /\ IsStr(x)
StrField(x) == JStr(Strip(Val(x)))

\* an int field; the wire values drawn hold an integer or leave it out
IsIntField(x) == x # Absent /\ Kind(x) = "int"

\* a datetime field given as text: YYYY-MM-DD, "T" or a space, HH:MM:SS
IsDateTimeText(t) ==
    /\ Len(t) = 19
    /\ \A i \in {1, 2, 3, 4, 6, 7, 9, 10, 12, 13, 15, 16, 18, 19} : IsDigit(t[i])
    /\ t[5] = "-" /\ t[8] = "-" /\ t[11] \in {"T", " "} /\ t[14] = ":" /\ t[17] = ":"

IsDateTimeField(x) == x # Absent /\ IsStr(x) /\ IsDateTimeText(Strip(Val(x)))

\* LogInfo: logID, username, loginTime required, logoutTime optional
IsLogInfo(x) ==
    /\ x # Absent
    /\ IsDict(x)
    /\ IsIntField(Field(x, K_logID, N_log_id))
    /\ IsStrField(Field(x, K_username, K_username))
    /\ IsDateTimeField(Field(x, K_loginTime, N_login_time))
    /\ LET logout == Field(x, K_logoutTime, N_logout_time)
       IN  logout = Absent \/ logout = None \/ IsDateTimeField(logout)

\* LoginResult.model_validate / RefreshResult.model_validate (the two models
\* declare the same fields): ok = FALSE stands for pydantic's ValidationError;
\* result holds the attributes BaseClient reads
ModelValidate(v) ==
    IF ~IsDict(v) THEN [ok |-> FALSE, result |-> None]
    ELSE LET username      == Field(v, K_username, K_username)
             company_code  == Field(v, K_companyCode, N_company_code)
             access_token  == Field(v, K_accessToken, N_access_token)
             refresh_token == Field(v, K_refreshToken, N_refresh_token)
         IN  IF /\ IsStrField(username)
                /\ IsStrField(Field(v, K_fullName, N_full_name))
                /\ IsIntField(Field(v, K_companyID, N_company_id))
                /\ IsStrField(company_code)
                /\ IsStrField(Field(v, K_companyName, N_company_name))
                /\ IsStrField(access_token)
                /\ IsStrField(refresh_token)
                /\ IsIntField(Field(v, K_flagActive, N_flag_active))
                /\ IsLogInfo(Field(v, K_logInfo, N_log_info))
             THEN [ok |-> TRUE,
                   result |-> [access_token |-> StrField(access_token),
                               refresh_token |-> StrField(refresh_token),
                               username |-> StrField(username),
                               company_code |-> StrField(company_code)]]
             ELSE [ok |-> FALSE, result |-> None]

\* the result of a call of AuthAPI: the model returned or the exception raised
Returned(result) == [ok |-> TRUE, result |-> result, exception |-> NoException]
Raised(exception) == [ok |-> FALSE, result |-> None, exception |-> exception]

\* lines 62-65 and 94-97 of api/auth.py: what is made of the decoded response
ResultOf(o, unexpected) ==
    IF o.k # "return" THEN Raised(ExceptionOf(o))
    ELSE IF IsDict(o.payload)
         THEN IF K_result \notin DOMAIN Val(o.payload)
              THEN Raised(PyException("KeyError", JStr(K_result)))
              ELSE LET validated == ModelValidate(Val(o.payload)[K_result])
                   IN  IF validated.ok THEN Returned(validated.result)
                       ELSE Raised(PyException("ValidationError", None))
    ELSE Raised(PyException("TypeError", JStr(unexpected)))

\* AuthAPI.login
AuthLogin(o) == ResultOf(o, T_UnexpectedLogin)

\* AuthAPI.refresh
AuthRefresh(o) == ResultOf(o, T_UnexpectedRefresh)

\* TokenInfo(access_token=..., refresh_token=..., username=..., company_code=...)
TokenInfo(result) ==
    <<"TokenInfo", [access_token  |-> StrField(result.access_token),
                    refresh_token |-> StrField(result.refresh_token),
                    username      |-> StrField(result.username),
                    company_code  |-> StrField(result.company_code)]>>

\* the four HTTP clients BaseClient.__init__ creates
TransportsPerClient == 4

\* no client: before construction, and after a construction that failed
NoClient ==
    [built |-> FALSE, username |-> None, password |-> None, static_token |-> None,
     auto_refresh |-> TRUE, token_info |-> None, transports |-> 0]

\* a request as sent: the endpoint and the authentication attached to it
P_login == <<"/","a","u","t","h","/","l","o","g","i","n">>
P_refresh == <<"/","a","u","t","h","/","r","e","f","r","e","s","h">>
P_api == <<"/","a","p","i">>
P_master == <<"/","m","a","s","t","e","r">>
P_report == <<"/","r","e","p","o","r","t","/","s","a","l","e","s","-","p","a","y","m","e","n","t","-","s","u","m","m","a","r","y">>
NoAuth == <<"none", 0>>
BearerAuth(token) == <<"header", (H_Authorization :> JStr(T_Bearer \o Val(token)))>>
BasicAuth(credentials) == <<"basic", credentials>>

\* the two halves of what _prepare_auth returns: the headers and the
\* httpx.Auth object
AuthHeaders(auth) == IF auth[1] = "header" THEN auth[2] ELSE EmptyFields
AuthObject(auth) == IF auth[1] = "basic" THEN auth[2] ELSE None

\* line 139: request_headers = {**auth_headers, **(headers or {})}
MergeHeaders(auth_headers, headers) ==
    IF headers = None THEN auth_headers
    ELSE [k \in DOMAIN auth_headers \cup DOMAIN headers |->
             IF k \in DOMAIN headers THEN headers[k] ELSE auth_headers[k]]

\* a request as handed to httpx: auth is what the strategy prepared, headers
\* the merged headers and basic the httpx.Auth object
SentWith(path, auth, headers) ==
    [path |-> path, auth |-> auth,
     headers |-> MergeHeaders(AuthHeaders(auth), headers), basic |-> AuthObject(auth)]
Sent(path, auth) == SentWith(path, auth, None)

\* api/auth.py line 60: headers={"Content-Type": "application/json"}
H_ContentType == <<"C","o","n","t","e","n","t","-","T","y","p","e">>
T_ApplicationJson == <<"a","p","p","l","i","c","a","t","i","o","n","/","j","s","o","n">>
LoginHeaders == (H_ContentType :> JStr(T_ApplicationJson))

\* the HTTP client each endpoint group is built on: AuthAPI on _core_http,
\* the bearer APIs on _api_http, MasterPOSAPI on _master_pos_http and the
\* sales payment summary of ReportAPI on _core_bearer_http
Targets == {"core", "api", "master_pos", "core_bearer"}
TargetOf(path) ==
    CASE path \in {P_login, P_refresh} -> "core"
      [] path = P_api                   -> "api"
      [] path = P_master                -> "master_pos"
      [] path = P_report                -> "core_bearer"

\* HTTPClient.__init__: self._client = None
NoConnections == [t \in Targets |-> FALSE]

\* HTTPClient.close
HttpClose(cn, t) == IF cn[t] THEN [cn EXCEPT ![t] = FALSE] ELSE cn

\* requests that create no httpx.Client
OpenOnUse_Never(cn, requests) == cn

\* the client property read by each request sent: the httpx.Client is
\* created when there is none
OpenOnUse(cn, requests) ==
    [t \in Targets |->
        cn[t] \/ \E i \in DOMAIN requests : TargetOf(requests[i].path) = t]

\* close leaving the core bearer client open
close_ThreeOfFour(cn) ==
    HttpClose(HttpClose(HttpClose(cn, "core"), "api"), "master_pos")

\* BaseClient.close
close(cn) ==
    HttpClose(HttpClose(HttpClose(HttpClose(cn, "core"), "api"), "master_pos"),
              "core_bearer")

\* what an operation did: the client it leaves, the exception it raised,
\* the requests it sent and the number of times it entered login()
Did(c, exception, requests, logins) ==
    [client |-> c, raised |-> exception, requests |-> requests, logins |-> logins]

\* Construct without the check of lines 73-75
Construct_Unchecked(username, password, static_token, auto_refresh) ==
    Did([built |-> TRUE, username |-> username, password |-> password,
         static_token |-> static_token, auto_refresh |-> auto_refresh,
         token_info |-> None,
         transports |-> TransportsPerClient],
        NoException, <<>>, 0)

\* BaseClient.__init__
Construct(username, password, static_token, auto_refresh) ==
    LET has_credentials  == username # None /\ password # None
        has_static_token == static_token # None
    IN  IF ~has_credentials /\ ~has_static_token
        THEN Did(NoClient, PyException("ValueError", JStr(T_MustProvide)), <<>>, 0)
        ELSE Did([built |-> TRUE, username |-> username, password |-> password,
                  static_token |-> static_token, auto_refresh |-> auto_refresh,
                  token_info |-> None,
                  transports |-> TransportsPerClient],
                 NoException, <<>>, 0)

\* BaseClient.is_authenticated
is_authenticated(c) ==
    IF Truthy(c.static_token) THEN TRUE ELSE c.token_info # None

\* get_token preferring the session to the static token
get_token_SessionFirst(c) ==
    IF c.token_info # None THEN c.token_info[2].access_token
    ELSE IF Truthy(c.static_token) THEN c.static_token
    ELSE None

\* BaseClient._get_token
get_token(c) ==
    IF Truthy(c.static_token) THEN c.static_token
    ELSE IF c.token_info # None THEN c.token_info[2].access_token
    ELSE None

\* BaseClient._get_credentials
get_credentials(c) ==
    IF Truthy(c.username) /\ Truthy(c.password) THEN <<c.username, c.password>>
    ELSE None

\* BearerHTTPClient._prepare_auth
BearerPrepareAuth(c) ==
    LET token == get_token(c)
    IN  IF Truthy(token) THEN BearerAuth(token) ELSE NoAuth

\* BasicAuthHTTPClient._prepare_auth
BasicPrepareAuth(c) ==
    LET credentials == get_credentials(c)
    IN  IF credentials # None THEN BasicAuth(credentials) ELSE NoAuth

\* login without the check of lines 175-177
login_Unchecked(c, o) ==
    LET result == AuthLogin(o)
    IN  Did(IF result.ok THEN [c EXCEPT !.token_info = TokenInfo(result.result)]
            ELSE c,
            result.exception, <<SentWith(P_login, NoAuth, LoginHeaders)>>, 1)

\* BaseClient.login
login(c, o) ==
    IF ~Truthy(c.username) \/ ~Truthy(c.password)
    THEN Did(c, PyException("ValueError", JStr(T_CannotLogin)), <<>>, 1)
    ELSE LET result == AuthLogin(o)
         IN  Did(IF result.ok THEN [c EXCEPT !.token_info = TokenInfo(result.result)]
                 ELSE c,
                 result.exception, <<SentWith(P_login, NoAuth, LoginHeaders)>>, 1)

\* refresh_token sending the access token of the session
refresh_token_WithAccessToken(c, o) ==
    IF c.token_info = None \/ ~Truthy(c.token_info[2].refresh_token)
    THEN Did(c, PyException("ValueError", JStr(T_CannotRefresh)), <<>>, 0)
    ELSE LET result == AuthRefresh(o)
             sent   == <<Sent(P_refresh, BearerAuth(c.token_info[2].access_token))>>
         IN  IF result.ok
             THEN Did([c EXCEPT !.token_info = TokenInfo(result.result)],
                      NoException, sent, 0)
             ELSE IF IsAuthenticationError(result.exception)
             THEN Did(c, TokenRefreshError(result.exception), sent, 0)
             ELSE Did(c, result.exception, sent, 0)

\* refresh_token dropping the session when the refresh fails
refresh_token_ClearingSession(c, o) ==
    IF c.token_info = None \/ ~Truthy(c.token_info[2].refresh_token)
    THEN Did(c, PyException("ValueError", JStr(T_CannotRefresh)), <<>>, 0)
    ELSE LET result == AuthRefresh(o)
             sent   == <<Sent(P_refresh, BearerAuth(c.token_info[2].refresh_token))>>
         IN  IF result.ok
             THEN Did([c EXCEPT !.token_info = TokenInfo(result.result)],
                      NoException, sent, 0)
             ELSE IF IsAuthenticationError(result.exception)
             THEN Did([c EXCEPT !.token_info = None],
                      TokenRefreshError(result.exception), sent, 0)
             ELSE Did(c, result.exception, sent, 0)

\* BaseClient.refresh_token
refresh_token(c, o) ==
    IF c.token_info = None \/ ~Truthy(c.token_info[2].refresh_token)
    THEN Did(c, PyException("ValueError", JStr(T_CannotRefresh)), <<>>, 0)
    ELSE LET result == AuthRefresh(o)
             sent   == <<Sent(P_refresh, BearerAuth(c.token_info[2].refresh_token))>>
         IN  IF result.ok
             THEN Did([c EXCEPT !.token_info = TokenInfo(result.result)],
                      NoException, sent, 0)
             ELSE IF IsAuthenticationError(result.exception)
             THEN Did(c, TokenRefreshError(result.exception), sent, 0)
             ELSE Did(c, result.exception, sent, 0)

\* ensure_authenticated looking at the session before the static token
ensure_authenticated_SessionFirst(c, o) ==
    IF c.token_info = None THEN login(c, o)
    ELSE Did(c, NoException, <<>>, 0)

\* ensure_authenticated refreshing the session it finds
ensure_authenticated_Refreshing(c, o) ==
    IF Truthy(c.static_token) THEN Did(c, NoException, <<>>, 0)
    ELSE IF c.token_info = None THEN login(c, o)
    ELSE refresh_token(c, o)

\* BaseClient.ensure_authenticated
ensure_authenticated(c, o) ==
    IF Truthy(c.static_token) THEN Did(c, NoException, <<>>, 0)
    ELSE IF c.token_info = None THEN login(c, o)
    ELSE Did(c, NoException, <<>>, 0)

\* api_call refreshing the session and trying again after an authentication
\* failure, when auto_refresh is set
api_call_AutoRefreshing(c, o) ==
        Did(c, IF o.k = "return" THEN NoException ELSE ExceptionOf(o),
            IF /\ o.k = "raise"
               /\ IsAuthenticationError(ExceptionOf(o))
               /\ c.auto_refresh
               /\ c.token_info # None
            THEN <<Sent(P_api, BearerPrepareAuth(c)),
                   Sent(P_refresh, BearerAuth(c.token_info[2].refresh_token)),
                   Sent(P_api, BearerPrepareAuth(c))>>
            ELSE <<Sent(P_api, BearerPrepareAuth(c))>>, 0)

\* api_call dropping the session on an authentication failure
api_call_ClearingSession(c, o) ==
        Did(IF o.k = "raise" /\ o.kind = "ESBAuthenticationError"
            THEN [c EXCEPT !.token_info = None] ELSE c,
            IF o.k = "return" THEN NoException ELSE ExceptionOf(o),
            <<Sent(P_api, BearerPrepareAuth(c))>>, 0)

\* a call of an API through the bearer client (_api_http, _core_bearer_http)
api_call(c, o) ==
        Did(c, IF o.k = "return" THEN NoException ELSE ExceptionOf(o),
            <<Sent(P_api, BearerPrepareAuth(c))>>, 0)

\* a call of the Master POS API through the Basic client (_master_pos_http)
master_call(c, o) ==
        Did(c, IF o.k = "return" THEN NoException ELSE ExceptionOf(o),
            <<Sent(P_master, BasicPrepareAuth(c))>>, 0)

\* a call of the sales payment summary through _core_bearer_http
report_call(c, o) ==
        Did(c, IF o.k = "return" THEN NoException ELSE ExceptionOf(o),
            <<Sent(P_report, BearerPrepareAuth(c))>>, 0)

\* _prepare_auth of the HTTP client of a target
PrepareAuth(c, target) ==
    CASE target \in {"api", "core_bearer"} -> BearerPrepareAuth(c)
      [] target = "master_pos"             -> BasicPrepareAuth(c)
      [] target = "core"                   -> NoAuth

\* get(path, headers=headers) on the HTTP client the path is routed through
http_request(c, path, headers, o) ==
        Did(c, IF o.k = "return" THEN NoException ELSE ExceptionOf(o),
            <<SentWith(path, PrepareAuth(c, TargetOf(path)), headers)>>, 0)

----------------------------------------------------------------------------
(* The authentication endpoint: what it can answer to login and refresh *)

W_user == <<"u","s","e","r">>
W_secret == <<"s","e","c","r","e","t">>
W_apikey == <<"a","p","i","k","e","y">>
W_FullName == <<"T","e","s","t"," ","U","s","e","r">>
W_co == <<"C","O","1">>
W_CompanyName == <<"C","o","m","p","a","n","y">>
W_LoginTime == <<"2","0","2","4","-","0","5","-","2","0"," ","1","3",":","3","5",":","2","9">>
W_EC03100000 == <<"E","C","0","3","1","0","0","0","0","0">>
W_tokA == <<"a","c","c","e","s","s","-","A">>
W_tokB == <<"a","c","c","e","s","s","-","B">>
W_refA == <<"r","e","f","r","e","s","h","-","A">>
W_refB == <<"r","e","f","r","e","s","h","-","B">>
W_blank == <<" ", " ">>

LogInfoValue ==
    MkObject(<< <<K_logID, JInt(1)>>, <<K_username, JStr(W_user)>>,
                <<K_loginTime, JStr(W_LoginTime)>>, <<K_logoutTime, JNull>> >>)

\* the result object of a login or refresh with these two tokens
MkResult(access, refresh) ==
    MkObject(<< <<K_username, JStr(W_user)>>, <<K_fullName, JStr(W_FullName)>>,
                <<K_companyID, JInt(1)>>, <<K_companyCode, JStr(W_co)>>,
                <<K_companyName, JStr(W_CompanyName)>>,
                <<K_accessToken, access>>, <<K_refreshToken, refresh>>,
                <<K_flagActive, JInt(1)>>, <<K_logInfo, LogInfoValue>> >>)

\* <<accessToken, refreshToken>>
TokenPairs ==
    { <<JStr(W_tokA), JStr(W_refA)>>, <<JStr(W_tokB), JStr(W_refB)>>,
      <<JStr(<<>>), JStr(W_refA)>>, <<JStr(W_blank), JStr(W_refB)>>,
      <<JStr(W_tokA), JStr(<<>>)>>, <<Absent, JStr(W_refA)>>,
      <<JInt(7), JStr(W_refA)>> }

ResultValues == {MkResult(pair[1], pair[2]) : pair \in TokenPairs} \cup {JNull, Absent}

\* the success envelope
Envelope(result) ==
    MkObject(<< <<K_status, JStr(T_ok)>>, <<K_code, JStr(W_EC03100000)>>,
                <<K_message, JStr(W_OK)>>, <<K_result, result>> >>)

FailBody(code) == MkBody(JStr(T_fail), code, JStr(W_InvalidToken), Absent, Absent, Absent)

AuthResponses ==
    {Response(200, NoHeaders, Envelope(result)) : result \in ResultValues}
    \cup {Response(200, NoHeaders, FailBody(code)) :
              code \in {JStr(EC03100001), JStr(EC03100032), JStr(EC011401), Absent}}
    \cup {Response(sc, NoHeaders, FailBody(Absent)) : sc \in {401, 403, 500}}
    \cup {Response(429, RetryAfter(W_abc), FailBody(Absent)),
          Response(200, NoHeaders, JList(<<>>)),
          Response(401, NoHeaders, JList(<<>>)),
          Response(200, NoHeaders, <<"text", W_Html>>),
          Response(200, NoHeaders, <<"text", W_null>>)}

AuthReplies ==
    {<<"response", r>> : r \in AuthResponses}
    \cup {<<"exception", e>> : e \in {"ReadTimeout", "ConnectError", "ReadError"}}

ApiReplies ==
    {<<"response", Response(200, NoHeaders, Envelope(JNull))>>,
     <<"response", Response(401, NoHeaders, FailBody(JStr(EC03100001)))>>,
     <<"response", Response(500, NoHeaders, FailBody(Absent))>>,
     <<"response", Response(429, NoHeaders, FailBody(Absent))>>,
     <<"exception", "ConnectTimeout">>,
     <<"exception", "ConnectError">>}

NoReply == <<"none", 0>>

\* a reply with the outcome HTTPClient.request makes of it
Exchange(reply) == [reply |-> reply, outcome |-> Request(reply)]
Exchanges == {Exchange(reply) : reply \in AuthReplies \cup ApiReplies}

\* the replies to a call of an API
ApiExchanges == {x \in Exchanges : x.reply \in ApiReplies}

\* the replies met in the life of a client: those to a call of an API and
\* a successful login or refresh
ClientReplies ==
    ApiReplies
    \cup {<<"response", Response(200, NoHeaders, Envelope(MkResult(JStr(W_tokA), JStr(W_refA))))>>}
ClientExchanges == {x \in Exchanges : x.reply \in ClientReplies}

\* the arguments a caller can give the constructor
UsernameValues == {None, JStr(<<>>), JStr(W_user)}
PasswordValues == {None, JStr(W_secret)}
StaticTokenValues == {None, JStr(<<>>), JStr(W_apikey)}

\* the headers a caller can give a request
H_XRequestId == <<"X","-","R","e","q","u","e","s","t","-","I","d">>
W_one == <<"1">>
W_tokCaller == <<"c","a","l","l","e","r","-","t","o","k","e","n">>
CallerHeaders ==
    {(H_Authorization :> JStr(T_Bearer \o W_tokCaller)),
     (H_XRequestId :> JStr(W_one))}

----------------------------------------------------------------------------
(* The client in use: it is constructed, then its operations are called   *)
(* one after the other in any order; x is the reply to the request an     *)
(* operation sends with the outcome of that request.  last records the    *)
(* operation that ran last: its name, the client before it, the reply it  *)
(* got (NoReply when it sent nothing), what it did and the connections    *)
(* that were open before it.  response and outcome are those of the       *)
(* request the operation sent.                                            *)

NoCall ==
    [op |-> "", before |-> NoClient, reply |-> NoReply, raised |-> NoException,
     requests |-> <<>>, logins |-> 0, conn |-> NoConnections]

\* the response and the outcome an operation leaves behind
ResponseOf(x, did) ==
    IF did.requests # <<>> /\ x.reply[1] = "response" THEN x.reply[2] ELSE NoResponse
OutcomeOf(x, did) == IF did.requests # <<>> THEN x.outcome ELSE NoOutcome

Called(op, before, reply, did) ==
    [op |-> op, before |-> before,
     reply |-> IF did.requests = <<>> THEN NoReply ELSE reply,
     raised |-> did.raised, requests |-> did.requests, logins |-> did.logins,
     conn |-> conn]

----------------------------------------------------------------------------
(* One call of HTTPClient.request *)

Init ==
    /\ pc = "calling"
    /\ response = NoResponse
    /\ outcome = NoOutcome
    /\ client = NoClient
    /\ last = NoCall
    /\ conn = NoConnections

\* line 145: the service answers with an object body
RespondObject ==
    /\ pc = "calling"
    /\ response' \in ObjectResponses
    /\ pc' = "handling"
    /\ UNCHANGED <<outcome, client, last, conn>>

\* line 145: the service answers with an object body whose data, errors
\* and headers vary
RespondDetail ==
    /\ pc = "calling"
    /\ response' \in DetailResponses
    /\ pc' = "handling"
    /\ UNCHANGED <<outcome, client, last, conn>>

\* line 145: the service answers with a list body
RespondList ==
    /\ pc = "calling"
    /\ response' \in ListResponses
    /\ pc' = "handling"
    /\ UNCHANGED <<outcome, client, last, conn>>

\* line 145: the service answers with a body still to be decoded
RespondText ==
    /\ pc = "calling"
    /\ response' \in TextResponses
    /\ pc' = "handling"
    /\ UNCHANGED <<outcome, client, last, conn>>

\* lines 153-165: the call raises before any response arrives
RequestFails ==
    /\ pc = "calling"
    /\ \E e \in NetworkExceptions : outcome' = By("transport", TransportFailure(e))
    /\ pc' = "done"
    /\ UNCHANGED <<response, client, last, conn>>

\* line 168: return self._handle_response(response)
Classify ==
    /\ pc = "handling"
    /\ outcome' = HandleResponse(response)
    /\ pc' = "done"
    /\ UNCHANGED <<response, client, last, conn>>

Next ==
    \/ RespondObject
    \/ RespondDetail
    \/ RespondList
    \/ RespondText
    \/ RequestFails
    \/ Classify

Spec == Init /\ [][Next]_vars

----------------------------------------------------------------------------
(* The operations of the client *)

\* ESBClient(username=..., password=..., static_token=..., auto_refresh=...)
NewClient(flags) ==
    /\ ~client.built
    /\ \E username \in UsernameValues, password \in PasswordValues,
          static_token \in StaticTokenValues, auto_refresh \in flags :
           \E did \in {Construct(username, password, static_token, auto_refresh)} :
               /\ client' = did.client
               /\ last' = Called("__init__",
                                 [NoClient EXCEPT !.username = username,
                                                  !.password = password,
                                                  !.static_token = static_token,
                                                  !.auto_refresh = auto_refresh],
                                 NoReply, did)
    /\ conn' = NoConnections
    /\ UNCHANGED <<pc, response, outcome>>

\* client.login()
Login(x) ==
    /\ client.built
    /\ \E did \in {login(client, x.outcome)} :
           /\ client' = did.client
           /\ last' = Called("login", client, x.reply, did)
           /\ response' = ResponseOf(x, did)
           /\ outcome' = OutcomeOf(x, did)
           /\ conn' = OpenOnUse(conn, did.requests)
    /\ UNCHANGED pc

\* client.refresh_token()
RefreshToken(x) ==
    /\ client.built
    /\ \E did \in {refresh_token(client, x.outcome)} :
           /\ client' = did.client
           /\ last' = Called("refresh_token", client, x.reply, did)
           /\ response' = ResponseOf(x, did)
           /\ outcome' = OutcomeOf(x, did)
           /\ conn' = OpenOnUse(conn, did.requests)
    /\ UNCHANGED pc

\* client.ensure_authenticated()
EnsureAuthenticated(x) ==
    /\ client.built
    /\ \E did \in {ensure_authenticated(client, x.outcome)} :
           /\ client' = did.client
           /\ last' = Called("ensure_authenticated", client, x.reply, did)
           /\ response' = ResponseOf(x, did)
           /\ outcome' = OutcomeOf(x, did)
           /\ conn' = OpenOnUse(conn, did.requests)
    /\ UNCHANGED pc

\* a call of one of the APIs that use the bearer client
ApiCall(x) ==
    /\ client.built
    /\ \E did \in {api_call(client, x.outcome)} :
           /\ client' = did.client
           /\ last' = Called("api", client, x.reply, did)
           /\ response' = ResponseOf(x, did)
           /\ outcome' = OutcomeOf(x, did)
           /\ conn' = OpenOnUse(conn, did.requests)
    /\ UNCHANGED pc

\* a call of the Master POS API
MasterCall(x) ==
    /\ client.built
    /\ \E did \in {master_call(client, x.outcome)} :
           /\ client' = did.client
           /\ last' = Called("master", client, x.reply, did)
           /\ response' = ResponseOf(x, did)
           /\ outcome' = OutcomeOf(x, did)
           /\ conn' = OpenOnUse(conn, did.requests)
    /\ UNCHANGED pc

\* client.report.get_sales_payment_summary(...)
ReportCall(x) ==
    /\ client.built
    /\ \E did \in {report_call(client, x.outcome)} :
           /\ client' = did.client
           /\ last' = Called("report", client, x.reply, did)
           /\ response' = ResponseOf(x, did)
           /\ outcome' = OutcomeOf(x, did)
           /\ conn' = OpenOnUse(conn, did.requests)
    /\ UNCHANGED pc

\* a request with headers of the caller's, through one of the HTTP clients
\* that authenticate
CallWithHeaders(x) ==
    /\ client.built
    /\ \E path \in {P_api, P_master}, headers \in CallerHeaders :
           \E did \in {http_request(client, path, headers, x.outcome)} :
               /\ client' = did.client
               /\ last' = Called("request", client, x.reply, did)
               /\ response' = ResponseOf(x, did)
               /\ outcome' = OutcomeOf(x, did)
               /\ conn' = OpenOnUse(conn, did.requests)
    /\ UNCHANGED pc

\* client.close()
Close ==
    /\ client.built
    /\ conn' = close(conn)
    /\ last' = Called("close", client, NoReply, Did(client, NoException, <<>>, 0))
    /\ UNCHANGED <<pc, response, outcome, client>>

\* the end of a with block, left normally or by the exception the operation
\* that ran last raised: __exit__ closes and returns None, so the exception
\* goes on to the caller
Exit ==
    /\ client.built
    /\ conn' = close(conn)
    /\ last' = Called("__exit__", client, NoReply, Did(client, last.raised, <<>>, 0))
    /\ UNCHANGED <<pc, response, outcome, client>>

\* the session of a client built with the default auto_refresh
SessionNext ==
    \/ NewClient({TRUE})
    \/ \E x \in Exchanges :
           \/ Login(x)
           \/ RefreshToken(x)
           \/ EnsureAuthenticated(x)
    \/ \E x \in ApiExchanges :
           \/ ApiCall(x)
           \/ MasterCall(x)

SessionSpec == Init /\ [][SessionNext]_vars

\* the whole life of a client, from its construction to close(), with the
\* requests of every kind in between
ClientNext ==
    \/ NewClient(BOOLEAN)
    \/ Close
    \/ Exit
    \/ \E x \in ClientExchanges :
           \/ Login(x)
           \/ RefreshToken(x)
           \/ EnsureAuthenticated(x)
           \/ ApiCall(x)
           \/ MasterCall(x)
           \/ ReportCall(x)
           \/ CallWithHeaders(x)

ClientSpec == Init /\ [][ClientNext]_vars

----------------------------------------------------------------------------
(* Properties of the classifier *)

\* a response has been classified
Handled == pc = "done" /\ response.received

Decoded == ResponseJson(response)
Body == Decoded.val
ObjectBody == Handled /\ Decoded.ok /\ IsDict(Body)
ListBody == Handled /\ Decoded.ok /\ IsList(Body)

\* the lower-cased status field, absent read as the empty text
StatusField == Lower(PyStr(GetOr(Body, K_status, JStr(<<>>))))

PassesSuccessTest ==
    \/ StatusField \in {T_ok, T_00}
    \/ (StatusField \notin {T_fail, T_failed, T_01} /\ response.status_code < 400)

\* C1: an object body is returned unchanged if and only if its lower-cased
\* status is "ok" or "00", or is none of "fail", "failed", "01" while the
\* HTTP status is below 400
C1_SuccessIffStatus ==
    ObjectBody =>
        /\ (outcome.k = "return") <=> PassesSuccessTest
        /\ outcome.k = "return" => outcome.payload = Body

\* C1 witness: status "OK" succeeds with HTTP status 500
C1_Witness ==
    /\ ObjectBody
    /\ GetOr(Body, K_status, None) = JStr(W_OK)
    /\ response.status_code = 500
    /\ outcome.k = "return"
    /\ outcome.payload = Body

\* C7: a body that is not JSON always fails: ServerError from status 500
\* up, Generic carrying the status code below 500, 2xx included
C7_NonJsonAlwaysFails ==
    (Handled /\ Kind(response.body) = "text" /\ Val(response.body) \in NonJsonTexts) =>
        /\ outcome.k = "raise"
        /\ response.status_code >= 500 => outcome.kind = "ESBServerError"
        /\ response.status_code < 500 =>
               /\ outcome.kind = "ESBError"
               /\ outcome.status_code = JInt(response.status_code)

\* C7 witness: an HTML body with status 200 is a Generic failure
C7_Witness ==
    /\ Handled
    /\ response.body = <<"text", W_Html>>
    /\ response.status_code = 200
    /\ outcome.k = "raise"
    /\ outcome.kind = "ESBError"
    /\ outcome.status_code = JInt(200)

\* C8: a list body is returned unchanged below status 400; from 400 up it
\* fails with 401 Authentication, 403 Authorization, 404 NotFound, 500 and
\* above ServerError, anything else Generic, the message being the first
\* element's message field or "Request failed"
C8_ListBodies ==
    ListBody =>
        IF response.status_code < 400
        THEN outcome.k = "return" /\ outcome.payload = Body
        ELSE /\ outcome.k = "raise"
             /\ outcome.kind =
                    CASE response.status_code = 401 -> "ESBAuthenticationError"
                      [] response.status_code = 403 -> "ESBAuthorizationError"
                      [] response.status_code = 404 -> "ESBNotFoundError"
                      [] response.status_code >= 500 -> "ESBServerError"
                      [] OTHER -> "ESBError"
             /\ outcome.message =
                    IF /\ Val(Body) # <<>>
                       /\ IsDict(Val(Body)[1])
                       /\ K_message \in DOMAIN Val(Val(Body)[1])
                    THEN Val(Val(Body)[1])[K_message]
                    ELSE JStr(T_RequestFailed)

\* C8 witness: a list with status 429 is a Generic failure with the first
\* element's message
C8_Witness ==
    /\ ListBody
    /\ response.status_code = 429
    /\ Len(Val(Body)) = 2
    /\ outcome.k = "raise"
    /\ outcome.kind = "ESBError"
    /\ outcome.message = JStr(W_Unauthorized)

\* no HTTP-status rule of lines 237-276 applies to the status code
NoStatusRule ==
    response.status_code \notin {400, 401, 403, 404, 405, 422, 429}
        /\ response.status_code < 500

DeclaresFailure == StatusField \in {T_fail, T_failed, T_01}

\* the Retry-After header, Absent when not sent
RetryAfterHeader == GetOr(JObj(response.headers), H_RetryAfter, Absent)

\* the message: the message field, else the error field, else "Unknown error"
ExpectedMessage ==
    LET message == Get(Body, K_message)
        error   == Get(Body, K_error)
    IN  IF Truthy(message) THEN message
        ELSE IF Truthy(error) THEN error ELSE JStr(T_UnknownError)

MessageContains(words) ==
    IsStr(ExpectedMessage) /\ Contains(words, Lower(Val(ExpectedMessage)))

\* C2: an object body that fails the success test is classified by the HTTP
\* status first: 401 Authentication, 403 Authorization, 404 NotFound, 405
\* MethodNotAllowed, 429 RateLimit, 400 or 422 Validation with detail from
\* data falling back to errors, 500 and above ServerError, whatever the
\* body's status, code and message
C2_StatusCodeFirst ==
    (ObjectBody /\ ~PassesSuccessTest /\ ~NoStatusRule) =>
        /\ outcome.k = "raise"
        /\ outcome.kind =
               CASE response.status_code = 401 -> "ESBAuthenticationError"
                 [] response.status_code = 403 -> "ESBAuthorizationError"
                 [] response.status_code = 404 -> "ESBNotFoundError"
                 [] response.status_code = 405 -> "ESBMethodNotAllowedError"
                 [] response.status_code = 429 -> "ESBRateLimitError"
                 [] response.status_code \in {400, 422} -> "ESBValidationError"
                 [] OTHER -> "ESBServerError"
        /\ response.status_code \in {400, 422} =>
               outcome.validation_errors =
                   IF Truthy(Get(Body, K_data)) THEN Get(Body, K_data)
                   ELSE Get(Body, K_errors)

\* what remains of C2 when the Retry-After header of a 429 response is
\* absent, empty or an integer
C2_OutsideUnreadableRetryAfter ==
    (response.status_code = 429 /\ RetryAfterHeader # Absent
        /\ Truthy(RetryAfterHeader) /\ ~PyInt(Val(RetryAfterHeader)).ok)
    \/ C2_StatusCodeFirst

\* C3: with no HTTP-status rule and a body status of "fail", "failed" or
\* "01", the code field decides before the message: EC03100001, EC03100032
\* and EC011401 Authentication, EC03100003 Validation with detail from
\* errors, EC0118 Validation, EC011400 Validation with detail from data,
\* any other or no code Validation when the message contains "undefined
\* index" and Generic otherwise (EC0110 is the subject of C5)
C3_CodeBeforeMessage ==
    (ObjectBody /\ ~PassesSuccessTest /\ NoStatusRule /\ DeclaresFailure
        /\ Get(Body, K_code) # JStr(EC0110)) =>
        LET code == Get(Body, K_code)
        IN  /\ outcome.k = "raise"
            /\ outcome.message = ExpectedMessage
            /\ CASE code \in {JStr(EC03100001), JStr(EC03100032), JStr(EC011401)} ->
                        outcome.kind = "ESBAuthenticationError"
                 [] code = JStr(EC03100003) ->
                        /\ outcome.kind = "ESBValidationError"
                        /\ outcome.validation_errors = Get(Body, K_errors)
                 [] code = JStr(EC0118) -> outcome.kind = "ESBValidationError"
                 [] code = JStr(EC011400) ->
                        /\ outcome.kind = "ESBValidationError"
                        /\ outcome.validation_errors = Get(Body, K_data)
                 [] OTHER ->
                        outcome.kind = IF MessageContains(T_undefined_index)
                                       THEN "ESBValidationError" ELSE "ESBError"

\* what remains of C3 when the message is text
C3_ForTextMessages ==
    (ObjectBody /\ IsStr(ExpectedMessage)) => C3_CodeBeforeMessage

\* C4 as claimed: the body-status rules assign a failure only when the HTTP
\* status is below 400
C4_BodyRulesOnlyBelow400 ==
    (Handled /\ outcome.rule = "body_status") => response.status_code < 400

\* C4 amended: the body-status rules assign a failure only when no
\* HTTP-status rule applies (the status is below 500 and none of 400, 401,
\* 403, 404, 405, 422, 429) and the body declares failure; a failing object
\* body with one of those statuses is classified by the HTTP-status rules
C4_BodyRulesOnlyWithoutStatusRule ==
    /\ (Handled /\ outcome.rule = "body_status") => (NoStatusRule /\ DeclaresFailure)
    /\ (ObjectBody /\ ~PassesSuccessTest /\ ~NoStatusRule) => outcome.rule = "status_code"

\* C4 witness: HTTP 402 with status "fail" and code EC03100032 is an
\* Authentication failure assigned by the code table
C4_Witness ==
    /\ ObjectBody
    /\ response.status_code = 402
    /\ Get(Body, K_code) = JStr(EC03100032)
    /\ outcome.rule = "body_status"
    /\ outcome.kind = "ESBAuthenticationError"

\* C5: with a failure status and code EC0110 (no HTTP-status rule applying),
\* a message that is JSON for an object gives Validation with the decoded
\* object as detail and the message "Validation error"; otherwise a message
\* containing "not found" gives NotFound; otherwise Generic
C5_EC0110 ==
    (ObjectBody /\ ~PassesSuccessTest /\ NoStatusRule /\ DeclaresFailure
        /\ Get(Body, K_code) = JStr(EC0110)) =>
        LET parsed == JsonLoads(ExpectedMessage)
        IN  /\ outcome.k = "raise"
            /\ IF parsed.ok /\ IsDict(parsed.val)
               THEN /\ outcome.kind = "ESBValidationError"
                    /\ outcome.validation_errors = parsed.val
                    /\ outcome.message = JStr(T_ValidationError)
               ELSE IF MessageContains(T_not_found)
                    THEN outcome.kind = "ESBNotFoundError"
                             /\ outcome.message = ExpectedMessage
               ELSE outcome.kind = "ESBError" /\ outcome.message = ExpectedMessage
            /\ ExpectedMessage = JStr(W_JsonObject) =>
                   outcome.validation_errors = JObj((W_name :> JStr(T_not_found)))

\* what remains of C5 when the message is text
C5_ForTextMessages ==
    (ObjectBody /\ IsStr(ExpectedMessage)) => C5_EC0110

\* C6: status 429 with a failing object body is always a RateLimit failure,
\* whose retry-after is the integer value of the Retry-After header when it
\* is one and absent otherwise
C6_RetryAfter ==
    (ObjectBody /\ ~PassesSuccessTest /\ response.status_code = 429) =>
        /\ outcome.k = "raise"
        /\ outcome.kind = "ESBRateLimitError"
        /\ outcome.retry_after =
               IF RetryAfterHeader # Absent /\ PyInt(Val(RetryAfterHeader)).ok
               THEN JInt(PyInt(Val(RetryAfterHeader)).val)
               ELSE None

\* what remains of C6 when the header is absent, empty or an integer
C6_ForIntegerHeaders ==
    (RetryAfterHeader # Absent /\ Truthy(RetryAfterHeader)
        /\ ~PyInt(Val(RetryAfterHeader)).ok)
    \/ C6_RetryAfter

\* the responses compared with the one classified: the same HTTP status,
\* body shape, status field and code field, every other field varying
C9_Headers == {NoHeaders, RetryAfter(W_five), RetryAfter(W_abc)}

\* the list bodies compared with a list body
C9_Lists == {JList(<<>>)} \cup {JList(<<item>>) : item \in ListItems}

\* the message text of a body with this <<message, error>> pair
C9_MessageOf(me) == BodyMessage(MkBody(Absent, Absent, me[1], me[2], Absent, Absent))

C9_AlikeAmong(pairs) ==
    IF ~Decoded.ok
    THEN {Response(response.status_code, h, response.body) : h \in C9_Headers}
    ELSE IF IsDict(Body)
    THEN {Response(response.status_code, h,
                   MkBody(GetOr(Body, K_status, Absent), GetOr(Body, K_code, Absent),
                          me[1], me[2], d[1], d[2])) :
              me \in pairs, d \in DetailPairs, h \in C9_Headers}
    ELSE IF IsList(Body)
    THEN {Response(response.status_code, h, b) : h \in C9_Headers, b \in C9_Lists}
    ELSE {Response(response.status_code, h, response.body) : h \in C9_Headers}

C9_Alike == C9_AlikeAmong(MessageErrorPairs)

\* those of them with the same message text as well
C9_AlikeWithMessage ==
    IF Decoded.ok /\ IsDict(Body)
    THEN C9_AlikeAmong({me \in MessageErrorPairs : C9_MessageOf(me) = BodyMessage(Body)})
    ELSE C9_Alike

\* C9 as claimed: two failed responses with the same HTTP status, body
\* shape, status field and code field are assigned the same failure kind,
\* whatever their message, error, data, errors and headers
C9_KindFromFourInputs ==
    (Handled /\ outcome.k = "raise") =>
        \A r \in C9_Alike :
            LET other == HandleResponse(r)
            IN  other.k = "raise" => other.kind = outcome.kind

\* C9 amended: two failed responses with the same HTTP status, body shape,
\* status field, code field and message text (message, falling back to
\* error) are assigned the same failure kind, whatever their data, errors
\* and headers; with the same Retry-After header as well, one is assigned
\* a failure kind exactly when the other is
C9_KindFromFiveInputs ==
    Handled =>
        \A r \in C9_AlikeWithMessage :
            LET other == HandleResponse(r)
            IN  /\ (outcome.k = "raise" /\ other.k = "raise") =>
                       other.kind = outcome.kind
                /\ r.headers = response.headers =>
                       (other.k = outcome.k /\ other.kind = outcome.kind)

\* C9 witness: a body with status "01" and no code whose message contains
\* "undefined index" is a Validation failure, and so is the response that
\* differs from it in data, errors and headers
C9_Witness ==
    /\ ObjectBody
    /\ response.status_code = 200
    /\ response.headers = NoHeaders
    /\ StatusField = T_01
    /\ Get(Body, K_code) = None
    /\ Get(Body, K_data) = DataList
    /\ outcome.rule = "body_status"
    /\ outcome.kind = "ESBValidationError"
    /\ \E r \in C9_AlikeWithMessage :
           /\ r.headers = RetryAfter(W_abc)
           /\ Get(r.body, K_data) = None
           /\ Get(r.body, K_errors) = None
           /\ HandleResponse(r).k = "raise"
           /\ HandleResponse(r).kind = "ESBValidationError"

\* C10: whenever the body is JSON, the call returns a payload or raises an
\* ESBError; no other exception escapes
C10_NeverUnclassified ==
    (Handled /\ Decoded.ok) => outcome.k \in {"return", "raise"}

----------------------------------------------------------------------------
(* Properties of the session manager *)

\* a credential form the client can use: the rest of BaseClient tests its
\* fields for truth, so an empty text is no credential
HasPair(c) == Truthy(c.username) /\ Truthy(c.password)
HasStaticToken(c) == Truthy(c.static_token)
HasSession(c) == c.token_info # None

\* the operation that ran last changed nothing and sent nothing
ChangedNothing == client = last.before
SentNothing == last.requests = <<>>
Failed == last.raised.kind # ""
FailedLocally ==
    last.raised.kind = "ValueError" /\ last.raised.code = None /\ SentNothing

\* C11: constructing a client with neither a (username, password) pair nor
\* a static token fails at once with a ValueError, no transport created and
\* nothing sent; so does a username or a password alone
C11_ConstructionNeedsCredentials ==
    (last.op = "__init__" /\ ~HasPair(last.before) /\ ~HasStaticToken(last.before)) =>
        /\ FailedLocally
        /\ ~client.built
        /\ client.transports = 0

\* what remains of C11 when "neither" means that the arguments are left out
C11_WhenArgumentsAreLeftOut ==
    (/\ last.op = "__init__"
     /\ (last.before.username = None \/ last.before.password = None)
     /\ last.before.static_token = None) =>
        /\ FailedLocally
        /\ ~client.built
        /\ client.transports = 0

C12_AuthFor(path, c) ==
    IF path = P_login THEN NoAuth
    ELSE IF path = P_refresh THEN BearerAuth(c.token_info[2].refresh_token)
    ELSE IF path = P_master
         THEN IF HasPair(c) THEN BasicAuth(<<c.username, c.password>>) ELSE NoAuth
    ELSE IF HasStaticToken(c) THEN BearerAuth(c.static_token)
    ELSE IF HasSession(c) /\ Truthy(c.token_info[2].access_token)
         THEN BearerAuth(c.token_info[2].access_token)
    ELSE NoAuth

C13_FailureChangesNothing ==
    (last.op \in {"login", "refresh_token", "ensure_authenticated"} /\ Failed) =>
        ChangedNothing

\* C13 witness: a refresh answered with 401 fails and the session of the
\* earlier login is still there
C13_Witness ==
    /\ last.op = "refresh_token"
    /\ response.received /\ response.status_code = 401
    /\ last.raised.kind = "ESBTokenRefreshError"
    /\ HasSession(client)
    /\ client.token_info[2].access_token = JStr(W_tokA)
    /\ client.token_info[2].refresh_token = JStr(W_refA)

\* C14: once the session is set its access token is not empty
C14_AccessTokenNeverEmpty ==
    HasSession(client) => client.token_info[2].access_token # JStr(<<>>)

\* what remains of C14 when the response carries a token that is not blank
C14_ForTokensNotBlank ==
    (/\ last.op \in {"login", "refresh_token", "ensure_authenticated"}
     /\ ~Failed /\ ~SentNothing
     /\ Strip(Val(Get(Get(outcome.payload, K_result), K_accessToken))) # <<>>) =>
        C14_AccessTokenNeverEmpty

\* C15: login() without a username and a password, and refresh_token()
\* without a refresh token in the session, fail with a ValueError, send
\* nothing and change nothing
C15_LocalFailures ==
    /\ (last.op = "login" /\ ~HasPair(last.before)) =>
           (FailedLocally /\ ChangedNothing)
    /\ (last.op = "refresh_token"
           /\ (~HasSession(last.before)
                  \/ ~Truthy(last.before.token_info[2].refresh_token))) =>
           (FailedLocally /\ ChangedNothing)

\* C15 witness: refresh_token() on a client with a static token only
C15_Witness ==
    /\ last.op = "refresh_token"
    /\ HasStaticToken(client) /\ client.username = None /\ ~HasSession(client)
    /\ last.raised = PyException("ValueError", JStr(T_CannotRefresh))
    /\ SentNothing

\* C16: a refresh whose request fails with an Authentication failure raises
\* ESBTokenRefreshError with the code, HTTP status and body of that failure;
\* any other failure of the request leaves refresh_token() as it is; login
\* never raises ESBTokenRefreshError
C16_RefreshFailureIsDistinct ==
    /\ (last.op = "refresh_token" /\ ~SentNothing /\ outcome.k # "return") =>
           IF outcome.k = "raise" /\ outcome.kind = "ESBAuthenticationError"
           THEN /\ last.raised.kind = "ESBTokenRefreshError"
                /\ last.raised.code = outcome.code
                /\ last.raised.status_code = outcome.status_code
                /\ last.raised.response_data = outcome.response_data
           ELSE last.raised = ExceptionOf(outcome)
    /\ last.op \in {"login", "ensure_authenticated"} =>
           last.raised.kind # "ESBTokenRefreshError"

\* C16 witness: a refresh answered with HTTP 200 and code EC011401
C16_Witness ==
    /\ last.op = "refresh_token"
    /\ response.received /\ response.status_code = 200
    /\ outcome.kind = "ESBAuthenticationError"
    /\ last.raised.kind = "ESBTokenRefreshError"
    /\ last.raised.code = JStr(EC011401)
    /\ last.raised.status_code = JInt(200)
    /\ last.raised.response_data = response.body

\* C17: with a static token, ensure_authenticated sends nothing, does not
\* enter login() and changes nothing, also when the client holds a pair
C17_StaticTokenNeverLogsIn ==
    (last.op = "ensure_authenticated" /\ HasStaticToken(last.before)) =>
        (SentNothing /\ ChangedNothing /\ ~Failed /\ last.logins = 0)

\* C17 witness: a client with a static token and a pair and no session
C17_Witness ==
    /\ last.op = "ensure_authenticated"
    /\ HasStaticToken(client) /\ HasPair(client) /\ ~HasSession(client)
    /\ SentNothing

\* C18: without a static token, ensure_authenticated enters login() once if
\* there is no session and not at all if there is one; with a session it
\* sends nothing (no refresh) and changes nothing; a login that fails leaves
\* the client without a session
C18_LoginOnlyWithoutSession ==
    (last.op = "ensure_authenticated" /\ ~HasStaticToken(last.before)) =>
        /\ last.logins = IF HasSession(last.before) THEN 0 ELSE 1
        /\ Len(last.requests) <= last.logins
        /\ \A i \in DOMAIN last.requests : last.requests[i].path = P_login
        /\ HasSession(last.before) => (SentNothing /\ ChangedNothing /\ ~Failed)
        /\ (~HasSession(last.before) /\ Failed) => ~HasSession(client)

\* C18 witness: the login of ensure_authenticated is refused and the client
\* is still without a session
C18_Witness ==
    /\ last.op = "ensure_authenticated"
    /\ ~HasStaticToken(client) /\ HasPair(client)
    /\ last.logins = 1 /\ Len(last.requests) = 1
    /\ last.raised.kind = "ESBAuthenticationError"
    /\ ~HasSession(client)

\* C19: is_authenticated is true exactly when there is a static token or a
\* session, and no operation turns it from true to false
C19_StaysAuthenticated ==
    /\ is_authenticated(client) <=> (HasStaticToken(client) \/ HasSession(client))
    /\ is_authenticated(last.before) => is_authenticated(client)

\* C19 witness: an API call of a logged-in client is refused with an
\* Authentication failure and the client is still authenticated
C19_Witness ==
    /\ last.op = "api"
    /\ last.raised.kind = "ESBAuthenticationError"
    /\ ~HasStaticToken(client) /\ HasSession(last.before)
    /\ is_authenticated(client)

\* C20: the token accessor gives the static token if there is one, else the
\* session's access token if there is a session, else nothing; a bearer
\* request of a client with a static token carries the static token, also
\* after logins and refreshes
C20_TokenAccessor ==
    /\ get_token(client) =
           IF HasStaticToken(client) THEN client.static_token
           ELSE IF HasSession(client) THEN client.token_info[2].access_token
           ELSE None
    /\ (last.op = "api" /\ HasStaticToken(last.before)) =>
           last.requests = <<Sent(P_api, BearerAuth(last.before.static_token))>>
    /\ (last.op = "api" /\ ~HasStaticToken(last.before) /\ HasSession(last.before)
           /\ Truthy(last.before.token_info[2].access_token)) =>
           last.requests =
               <<Sent(P_api, BearerAuth(last.before.token_info[2].access_token))>>

\* C20 witness: a client with a static token has logged in and its bearer
\* request still carries the static token
C20_Witness ==
    /\ last.op = "api"
    /\ HasSession(client) /\ client.token_info[2].access_token = JStr(W_tokB)
    /\ last.requests = <<Sent(P_api, BearerAuth(JStr(W_apikey)))>>

----------------------------------------------------------------------------
(* Properties of the requests a client sends and of its connections *)

\* the operations that call an API, not the authentication endpoint
ApiOps == {"api", "master", "report", "request"}

\* a request carries a bearer token: an Authorization header that starts
\* with "Bearer " and goes on
CarriesBearer(r) ==
    /\ H_Authorization \in DOMAIN r.headers
    /\ IsStr(r.headers[H_Authorization])
    /\ StartsAt(Val(r.headers[H_Authorization]), 1, T_Bearer)
    /\ Len(Val(r.headers[H_Authorization])) > Len(T_Bearer)
CarriesBasic(r) == r.basic # None

\* C21 as claimed: a call of a bearer API by a client that has a username
\* and a password, no static token and no session yet logs in first, and
\* the request to the API carries an access token
C21_LogsInWhenNeeded ==
    (/\ last.op = "api"
     /\ HasPair(last.before)
     /\ ~HasStaticToken(last.before)
     /\ ~HasSession(last.before)) =>
        /\ last.logins >= 1
        /\ \E i \in DOMAIN last.requests : last.requests[i].path = P_login
        /\ \E i \in DOMAIN last.requests :
               last.requests[i].path = P_api /\ CarriesBearer(last.requests[i])

\* what the code does in the case of C21: the one request goes to the API
\* with no Authorization header, nothing is sent to the login endpoint and
\* the client is left without a session
C21_SentWithoutLogin ==
    (/\ last.op = "api"
     /\ HasPair(last.before)
     /\ ~HasStaticToken(last.before)
     /\ ~HasSession(last.before)) =>
        /\ last.logins = 0
        /\ last.requests = <<Sent(P_api, NoAuth)>>
        /\ ~CarriesBearer(last.requests[1])
        /\ ~HasSession(client)

C23_OneMechanismPerTarget ==
    last.op \in ApiOps =>
        \A i \in DOMAIN last.requests :
            LET r == last.requests[i]
            IN  /\ CarriesBearer(r) # CarriesBasic(r)
                /\ CarriesBearer(r) <=> TargetOf(r.path) \in {"api", "core_bearer"}
                /\ CarriesBasic(r) <=> TargetOf(r.path) = "master_pos"

\* what remains of C23: the strategy of an HTTP client never prepares the
\* mechanism of the other kind.  A request through a bearer client has no
\* Basic credentials and a header only from _get_token; a request through
\* the Basic client has the username/password pair or nothing, and no
\* Authorization header but one the caller gave
C23_NeverTheOtherMechanism ==
    last.op \in ApiOps =>
        \A i \in DOMAIN last.requests :
            LET r == last.requests[i]
            IN  IF TargetOf(r.path) \in {"api", "core_bearer"}
                THEN /\ ~CarriesBasic(r)
                     /\ r.auth = IF Truthy(get_token(last.before))
                                 THEN BearerAuth(get_token(last.before)) ELSE NoAuth
                ELSE /\ TargetOf(r.path) = "master_pos"
                     /\ AuthHeaders(r.auth) = EmptyFields
                     /\ r.basic = get_credentials(last.before)

\* C24 as claimed: where the strategy set an Authorization header, the
\* request is sent with the strategy's value whatever the caller's headers
C24_StrategyAuthorizationWins ==
    last.op \in ApiOps =>
        \A i \in DOMAIN last.requests :
            LET r == last.requests[i]
            IN  H_Authorization \in DOMAIN AuthHeaders(r.auth) =>
                    /\ H_Authorization \in DOMAIN r.headers
                    /\ r.headers[H_Authorization] = AuthHeaders(r.auth)[H_Authorization]

\* what the code does in the case of C24: every header of the caller's is
\* sent as the caller gave it, the Authorization header included, and the
\* strategy's headers are sent for the keys the caller did not give
C24_CallerHeadersWin ==
    last.op = "request" =>
        \A i \in DOMAIN last.requests :
            LET r == last.requests[i]
            IN  /\ \E headers \in CallerHeaders :
                       /\ DOMAIN r.headers = DOMAIN headers \cup DOMAIN AuthHeaders(r.auth)
                       /\ \A k \in DOMAIN headers : r.headers[k] = headers[k]
                       /\ \A k \in DOMAIN AuthHeaders(r.auth) \ DOMAIN headers :
                              r.headers[k] = AuthHeaders(r.auth)[k]

\* the HTTP clients the requests of the operation that ran last went through
Used == {TargetOf(last.requests[i].path) : i \in DOMAIN last.requests}

\* C25: the four HTTP clients open their httpx.Client lazily and close()
\* lets go of all four.  None is open after construction; an operation
\* opens those its requests go through and no other; after close() none is
\* open, close() raises nothing, also on a client that sent nothing, and a
\* second close() leaves the state of the first; __exit__ does what close()
\* does, whether the with block ended normally or by an exception, and
\* lets the exception go on
C25_LazyOpenAndClose ==
    /\ last.op = "__init__" => conn = NoConnections
    /\ last.op \notin {"", "__init__", "close", "__exit__"} =>
           \A t \in Targets : conn[t] <=> (last.conn[t] \/ t \in Used)
    /\ last.op \in {"close", "__exit__"} =>
           /\ conn = NoConnections
           /\ client = last.before
           /\ SentNothing
    /\ last.op = "close" => ~Failed
    /\ conn = NoConnections => close(conn) = conn

\* C25 witness: a with block is left by an exception while connections are
\* open, the core bearer one among them; none is open afterwards
C25_Witness ==
    /\ last.op = "__exit__"
    /\ Failed
    /\ last.conn["core_bearer"]
    /\ last.conn["core"]
    /\ conn = NoConnections

\* C30: close() is not the end of an HTTP client.  A request sent through
\* a client that holds no httpx.Client, closed before or never used, is
\* sent as any other and leaves it open; an open client stays open until
\* close() or __exit__
C30_ReopensAfterClose ==
    /\ \A t \in Used : conn[t]
    /\ last.op \in ApiOps => Len(last.requests) = 1
    /\ (last.op \in {"login", "refresh_token", "ensure_authenticated"}
        /\ FailedLocally) => last.raised.kind = "ValueError" /\ conn = last.conn
    /\ \A t \in Targets :
           (last.conn[t] /\ ~conn[t]) => last.op \in {"close", "__exit__"}

\* C30 witness: a refresh is sent through the core client while that
\* client holds no httpx.Client.  The session being refreshed came from a
\* login sent through the same client, so close() ran in between; the
\* refresh got its answer and the client is open again
C30_Witness ==
    /\ last.op = "refresh_token"
    /\ HasSession(last.before)
    /\ ~last.conn["core"]
    /\ last.requests # <<>>
    /\ last.reply[1] = "response"
    /\ ~Failed
    /\ conn["core"]

----------------------------------------------------------------------------
(* Properties of a call that does not complete *)

\* C26 as claimed: a call that does not complete raises one transport
\* failure and the classifier does not run; a timeout gives ESBTimeoutError
\* with the timeout and the path in its message, every other failure of
\* the network gives ESBConnectionError with the base URL and the cause in
\* its message
C26_TransportFailures ==
    (pc = "done" /\ ~response.received) =>
        /\ outcome.k = "raise"
        /\ outcome.rule = "transport"
        /\ \/ /\ outcome.kind = "ESBTimeoutError"
              /\ Contains(W_TimeoutText, Val(outcome.message))
              /\ Contains(W_Path, Val(outcome.message))
           \/ /\ outcome.kind = "ESBConnectionError"
              /\ Contains(W_BaseUrl, Val(outcome.message))
              /\ Contains(W_Cause, Val(outcome.message))

\* what remains of C26: the failure is ESBTimeoutError with the timeout and
\* the path, or ESBConnectionError with the cause; the base URL is in the
\* message of the latter when it says "Failed to connect to" and in no other
C26_BaseUrlForConnectErrorsOnly ==
    (pc = "done" /\ ~response.received) =>
        /\ outcome.k = "raise"
        /\ outcome.rule = "transport"
        /\ \/ /\ outcome.kind = "ESBTimeoutError"
              /\ Contains(W_TimeoutText, Val(outcome.message))
              /\ Contains(W_Path, Val(outcome.message))
           \/ /\ outcome.kind = "ESBConnectionError"
              /\ Contains(W_Cause, Val(outcome.message))
              /\ Contains(W_BaseUrl, Val(outcome.message))
                     <=> StartsAt(Val(outcome.message), 1, T_FailedToConnectTo)

----------------------------------------------------------------------------
(* Properties of the session over several logins and refreshes *)

\* the operation that ran last obtained a session: it sent a login or a
\* refresh and raised nothing
ObtainedSession ==
    /\ last.op \in {"login", "refresh_token", "ensure_authenticated"}
    /\ last.requests # <<>>
    /\ ~Failed

\* the result object of the answer the operation that ran last got
ResultReceived == Val(ResponseJson(last.reply[2]).val)[K_result]

\* the four fields of the session, as sent by the service and stripped
SessionReceived ==
    [access_token  |-> StrField(Field(ResultReceived, K_accessToken, N_access_token)),
     refresh_token |-> StrField(Field(ResultReceived, K_refreshToken, N_refresh_token)),
     username      |-> StrField(Field(ResultReceived, K_username, K_username)),
     company_code  |-> StrField(Field(ResultReceived, K_companyCode, N_company_code))]

\* the session is that of the most recent successful login or refresh: an
\* operation that obtained a session leaves the four fields it received,
\* any other leaves the session it found
SessionIsMostRecent ==
    IF ObtainedSession
    THEN client.token_info = <<"TokenInfo", SessionReceived>>
    ELSE client.token_info = last.before.token_info

\* a refresh sends the refresh token of the session it found
RefreshSendsMostRecent ==
    (last.op = "refresh_token" /\ last.requests # <<>>) =>
        /\ HasSession(last.before)
        /\ last.requests =
               <<Sent(P_refresh, BearerAuth(last.before.token_info[2].refresh_token))>>

\* C27 as claimed: the session is that of the most recent successful login
\* or refresh, a refresh sends the refresh token of that session, and a
\* bearer request of a client with a session and no static token carries
\* the access token of that session
C27_MostRecentSession ==
    /\ SessionIsMostRecent
    /\ RefreshSendsMostRecent
    /\ (last.op = "api" /\ ~HasStaticToken(last.before) /\ HasSession(last.before)) =>
           /\ Len(last.requests) = 1
           /\ CarriesBearer(last.requests[1])
           /\ last.requests[1].headers[H_Authorization] =
                  JStr(T_Bearer \o Val(last.before.token_info[2].access_token))

\* what remains of C27: the same, the bearer request being that of a
\* session whose access token is not empty
C27_ForTokensNotEmpty ==
    /\ SessionIsMostRecent
    /\ RefreshSendsMostRecent
    /\ (/\ last.op = "api"
        /\ ~HasStaticToken(last.before)
        /\ HasSession(last.before)
        /\ Truthy(last.before.token_info[2].access_token)) =>
           last.requests =
               <<Sent(P_api, BearerAuth(last.before.token_info[2].access_token))>>

\* C28: the login request goes through the core client with no Authorization
\* header and no Basic credentials, whatever session and static token the
\* client has; the refresh request goes through the core client with the
\* refresh token of the session as its bearer token, and with nothing else
C28_LoginAndRefreshRequests ==
    \A i \in DOMAIN last.requests :
        LET r == last.requests[i]
        IN  /\ r.path = P_login =>
                   /\ TargetOf(r.path) = "core"
                   /\ r.auth = NoAuth
                   /\ H_Authorization \notin DOMAIN r.headers
                   /\ ~CarriesBasic(r)
            /\ r.path = P_refresh =>
                   /\ TargetOf(r.path) = "core"
                   /\ HasSession(last.before)
                   /\ r.headers = (H_Authorization :>
                          JStr(T_Bearer \o Val(last.before.token_info[2].refresh_token)))
                   /\ ~CarriesBasic(r)
            /\ r.path \in {P_login, P_refresh} =>
                   last.op \in {"login", "refresh_token", "ensure_authenticated"}

\* C28 witness: a client with a static token and a session whose access
\* token differs from its refresh token refreshes: the request carries the
\* refresh token, neither the static token nor the access token
C28_Witness ==
    /\ last.op = "refresh_token"
    /\ HasStaticToken(last.before)
    /\ HasSession(last.before)
    /\ last.before.token_info[2].access_token = JStr(W_tokA)
    /\ last.before.token_info[2].refresh_token = JStr(W_refA)
    /\ Len(last.requests) = 1
    /\ last.requests[1].headers = (H_Authorization :> JStr(T_Bearer \o W_refA))

\* C29 as claimed: a client that was constructed is authenticated at once
\* or can log in: login() does not raise the ValueError of a client
\* without credentials
C29_UsableCredential ==
    (last.op = "__init__" /\ client.built) =>
        \/ is_authenticated(client)
        \/ \A x \in ApiExchanges :
               login(client, x.outcome).raised # PyException("ValueError", JStr(T_CannotLogin))

\* what remains of C29 when no argument given is an empty text
C29_WhenNoArgumentIsEmpty ==
    (/\ last.op = "__init__"
     /\ client.built
     /\ client.username # JStr(<<>>)
     /\ client.static_token # JStr(<<>>)) =>
        \/ is_authenticated(client)
        \/ \A x \in ApiExchanges :
               login(client, x.outcome).raised # PyException("ValueError", JStr(T_CannotLogin))

=============================================================================
